---------------------------- MODULE Spec2Model ----------------------------
(***************************************************************************)
(* CVEReproducer.run (src/src/main.py): the phase controller, the three    *)
(* retry/critic loops and the budget monitor, as a state machine.          *)
(*                                                                         *)
(* One action is one straight-line stretch of run() between two external   *)
(* invocations or charges.  Agent, critic and validator outcomes, their    *)
(* costs and their durations are inputs, drawn from small sets.            *)
(***************************************************************************)
EXTENDS Integers, Sequences, FiniteSets, TLC

---------------------------------------------------------------------------
(* Program constants *)

TIMEOUT == 2700
MAX_COST == 5

max_repo_tries == 3
max_critic_tries == 2
max_exploit_tries == 3
max_exploit_critic_tries == 2
max_flag_tries == 5
max_sanity_tries == 5

\* toolbox/command_ops.py: timeout=300, time.sleep(5) and line_count = 100
FOREGROUND_TIMEOUT == 300
SETTLE_DELAY == 5
LINE_COUNT == 100

(* Bounds of the model *)

\* what time.time() reads when run() is entered
Clock0 == 1000
\* an invocation takes either no time or LongCall seconds
LongCall == 1500
\* an invocation is either free or costs BigCost
BigCost == 5
\* at most this many invocations of one run are not free
MaxCostlyCalls == 1
\* a command is done after QuickRun seconds or after SlowRun seconds
QuickRun == 2
SlowRun == 400
\* at most this many calls of command_ops are made
MaxOps == 3
\* at most this many processes are launched in background
MaxProcs == 2
\* a log file has at most this many lines
MaxLines == 102

---------------------------------------------------------------------------
(* Values *)

\* Python's None for the optional values of run(); Some(x) is a value that is set
None == <<>>
Some(x) == <<x>>

MaxIterations == "Agent stopped due to max iterations."

CostReason == "Cost exceeds maximum limit"
TypeErrorReason == "unsupported operand type(s) for -: 'float' and 'NoneType'"
AgentErrorReason == "agent error"

\* the dictionary self.results is constructed as
EmptyResults == [k \in {} |-> ""]
Result(s, r) == [success |-> s, reason |-> r]

\* an artifact before it is produced or loaded
NoArtifact == [success |-> "", time_left |-> None]

Flags == {"KB", "PRE_REQ", "REPO", "REPO_CRITIC", "EXPLOIT", "EXPLOIT_CRITIC",
          "CTF_VERIFIER", "SANITY_CHECK"}

\* the module-level switches (lines 30-39) as run() can find them: the driver
\* turns KB, PRE_REQ and REPO on together (lines 552-555); a critic switch only
\* matters with its phase, and is taken both on and off
FlagSettings ==
    {f \in [Flags -> BOOLEAN] :
        /\ f["KB"] = f["PRE_REQ"] /\ f["PRE_REQ"] = f["REPO"]
        /\ f["REPO_CRITIC"] => f["REPO"]
        /\ f["EXPLOIT_CRITIC"] => f["EXPLOIT"]
        /\ f["SANITY_CHECK"] => f["CTF_VERIFIER"]}

Kinds == {"kb", "prereq", "repo", "repo_sum", "repo_critic",
          "exploit", "exploit_sum", "exploit_critic",
          "verifier", "validator", "sanity"}

\* the texts a critic can return as feedback; two of them are blank
CriticTexts == {"", " ", "retry X"}

\* the feedback tested without stripping it
Strip_none(s) == s

\* str.strip() on the critic texts
Strip(s) == IF s = " " THEN "" ELSE s

\* the output of the n-th summarize call of a loop
SummaryText(n) == <<"summary 1", "summary 2", "summary 3", "summary 4">>[n]

---------------------------------------------------------------------------
VARIABLES
    flags,          \* the module-level switches KB .. SANITY_CHECK
    pc,             \* position in run()
    exc,            \* the exception in flight, or None
    results,        \* self.results
    total_cost,     \* self.total_cost
    start_time,     \* self.start_time
    now,            \* time.time()
    repo_build,     \* self.repo_build
    exploit,        \* self.exploit
    locals,         \* the live local variables of run(): those of the current loop
    calls,          \* history: invocations per kind since the current loop started
    top,            \* history: the counters at the top of the last iteration entered
    iterEnd,        \* history: how the last iteration of the current loop ended
    lastCharge,     \* history: the last update_cost call
    incurred,       \* history: the costs of the invocations that returned, summed
    alarm,          \* the SIGALRM timer of the driver: unset, armed, fired or off
    record,         \* what helper.save_result was given, or None
    env,            \* command_ops.env: the variables set for the commands
    background_process_list,  \* command_ops.background_process_list: its keys
    os_procs,       \* the operating system: the processes launched in background
    ops,            \* history: the calls of command_ops made so far, with returns
    stdout_log,     \* the stdout log file of a command: its lines, or not readable
    stderr_log,     \* the stderr log file of a command: its lines, or not readable
    tail            \* what get_tail_log returned or raised for the two, or None

progVars == <<flags, pc, exc, results, total_cost, start_time, now, repo_build,
              exploit, locals>>
histVars == <<calls, top, iterEnd, lastCharge, incurred>>
drvVars == <<alarm, record>>
toolVars == <<env, background_process_list, os_procs, ops>>
tailVars == <<stdout_log, stderr_log, tail>>
sbxVars == <<toolVars, tailVars>>
vars == <<progVars, histVars, drvVars, sbxVars>>

NoLocals == [res |-> [value |-> ""]]
NoCalls == [k \in Kinds |-> 0]
NoTop == [phase |-> "", try |-> 0, round |-> 0]
NoCharge == [made |-> FALSE, exception |-> FALSE, terminal |-> FALSE, phase |-> ""]

\* toolbox.command_ops is imported: env = {} (line 52) and
\* background_process_list = {} (line 133); nothing is launched or called
ToolsLoaded ==
    /\ env = << >>
    /\ background_process_list = {}
    /\ os_procs = << >>
    /\ ops = << >>

\* no log has been read
NoLogRead ==
    /\ stdout_log = [readable |-> TRUE, lines |-> << >>]
    /\ stderr_log = [readable |-> TRUE, lines |-> << >>]
    /\ tail = None

SandboxLoaded == ToolsLoaded /\ NoLogRead

Init ==
    /\ flags \in FlagSettings
    /\ pc = "knowledge"
    /\ exc = None
    /\ results = EmptyResults
    /\ total_cost = 0
    /\ start_time = None
    /\ now = Clock0
    /\ repo_build = NoArtifact
    /\ exploit = NoArtifact
    /\ locals = NoLocals
    /\ calls = NoCalls
    /\ top = NoTop
    /\ iterEnd = "none"
    /\ lastCharge = NoCharge
    /\ incurred = 0
    /\ alarm = "unset"
    /\ record = None
    /\ SandboxLoaded

---------------------------------------------------------------------------
(* Inputs *)

\* signal.alarm(TIMEOUT) is called when time.time() reads Clock0 (line 567)
AlarmAt == Clock0 + TIMEOUT

Armed == alarm = "armed"

\* how long an invocation that returns can take now: no time, LongCall, or,
\* with the alarm pending, until the alarm is due; an invocation the alarm
\* fires in does not get here
Durations ==
    {d \in {0, LongCall} \cup (IF Armed /\ now < AlarmAt THEN {AlarmAt - now} ELSE {}) :
        /\ now + d <= Clock0 + 2 * LongCall
        /\ Armed => now + d <= AlarmAt}

\* what an invocation can cost now, `pending` being the costs not yet charged
CallCosts(pending) ==
    {c \in {0, BigCost} : total_cost + pending + c <= MaxCostlyCalls * BigCost}

\* what an agent call returns: the sentinel, or a result with success yes / no
AgentValues == {MaxIterations, "yes", "no"}

\* what a critic call returns
CriticResults ==
    {[decision |-> "yes", possible |-> "yes", feedback |-> ""]}
    \cup {[decision |-> "no", possible |-> "no", feedback |-> ""]}
    \cup {[decision |-> "no", possible |-> "yes", feedback |-> f] : f \in CriticTexts}

---------------------------------------------------------------------------
(* check_time and update_cost *)

\* the deadline never looked at
Expired_never(t, start) == FALSE

\* time.time() - self.start_time > TIMEOUT, with a start time
Expired(t, start) == t - start > TIMEOUT

TimeoutMessage(phase) == "Timeout expired during phase: " \o phase

\* the exception check_time(phase) raises at time t, or None
CheckTime(phase, t) ==
    IF start_time = None
        THEN Some([type |-> "TypeError", message |-> TypeErrorReason])
        ELSE IF Expired(t, start_time[1])
            THEN Some([type |-> "TimeoutExpired", message |-> TimeoutMessage(phase)])
            ELSE None

\* the ceiling test with > in place of >=
CostExceeded_strict(total, exception) == total > MAX_COST /\ ~exception

\* update_cost's test after the addition
CostExceeded(total, exception) == total >= MAX_COST /\ ~exception

\* the charge subtracted instead of added
NewTotal_subtracts(cost) == total_cost - cost

\* line 57
NewTotal(cost) == total_cost + cost

\* update_cost(cost, exception): the new total and the record of the call;
\* the caller continues at `next` unless the call raises
UpdateCost(cost, exception, terminal, phase, next) ==
    /\ total_cost' = NewTotal(cost)
    /\ lastCharge' = [made |-> TRUE, exception |-> exception, terminal |-> terminal,
                      phase |-> phase]
    /\ IF CostExceeded(NewTotal(cost), exception)
          THEN /\ pc' = "except"
               /\ exc' = Some([type |-> "ValueError", message |-> CostReason])
          ELSE /\ pc' = next
               /\ exc' = None

Raise(type, message) ==
    /\ pc' = "except"
    /\ exc' = Some([type |-> type, message |-> message])

\* the result recorded, but run() left by an exception
Return_raised(result) ==
    /\ pc' = "raised"
    /\ results' = result
    /\ exc' = None

\* a return statement of run() that follows an assignment to self.results
Return(result) ==
    /\ pc' = "returned"
    /\ results' = result
    /\ exc' = None

Invoked(kind) == calls' = [calls EXCEPT ![kind] = @ + 1]

\* TIMEOUT - (time.time() - self.start_time)
TimeLeft(t) == TIMEOUT - (t - start_time[1])

\* the attempt bound taken as exclusive
LoopGuard_exclusive(done, try, max_tries, round, max_rounds) ==
    ~done /\ try < max_tries /\ round <= max_rounds

\* the loop test without the bound on the critic rounds
LoopGuard_noRounds(done, try, max_tries, round, max_rounds) ==
    ~done /\ try <= max_tries

\* the while condition of a retry loop
LoopGuard(done, try, max_tries, round, max_rounds) ==
    ~done /\ try <= max_tries /\ round <= max_rounds

\* the top of an iteration, for the history
NewTop(phase, try, round) ==
    [phase |-> phase, try |-> try, round |-> round]

---------------------------------------------------------------------------
(* Phase 1: Knowledge (lines 63-116) *)

\* the prerequisites builder run whatever the switch says
RunPreReq_always == TRUE

\* whether each phase is executed rather than loaded
RunKnowledge == flags["KB"]
RunPreReq == flags["PRE_REQ"]
RunRepo == flags["REPO"]
RunExploit == flags["EXPLOIT"]
RunVerifier == flags["CTF_VERIFIER"]

\* whether the critic of a phase is consulted
UseRepoCritic == flags["REPO_CRITIC"]
UseExploitCritic == flags["EXPLOIT_CRITIC"]
UseSanityCheck == flags["SANITY_CHECK"]

\* line 82: the timer is started before the knowledge builder is invoked
StartTimer(t) == Some(t)

KnowledgeRun ==
    /\ pc = "knowledge"
    /\ RunKnowledge
    /\ \E d \in Durations, c \in CallCosts(0), ok \in BOOLEAN :
          /\ start_time' = StartTimer(now)
          /\ now' = now + d
          /\ Invoked("kb")
          /\ incurred' = incurred + (IF ok THEN c ELSE 0)
          /\ IF ok
                THEN UpdateCost(c, FALSE, FALSE, "knowledge", "prereq")
                ELSE Raise("Exception", AgentErrorReason) /\ UNCHANGED <<total_cost, lastCharge>>
    /\ UNCHANGED <<flags, results, repo_build, exploit, locals, top, iterEnd>>
    /\ UNCHANGED <<drvVars, sbxVars>>

KnowledgeLoad ==
    /\ pc = "knowledge"
    /\ ~RunKnowledge
    /\ \E found \in BOOLEAN :
          IF found
             THEN pc' = "prereq" /\ UNCHANGED <<results, exc>>
             ELSE Return(Result("False", "Knowledge Builder response not found"))
    /\ UNCHANGED <<flags, total_cost, start_time, now, repo_build, exploit, locals,
                   histVars>>
    /\ UNCHANGED <<drvVars, sbxVars>>

(* Phase 2: Prerequisites (lines 118-145) *)

PreReqRun ==
    /\ pc = "prereq"
    /\ RunPreReq
    /\ \E d \in Durations, c \in CallCosts(0), ok \in BOOLEAN :
          /\ now' = now + d
          /\ Invoked("prereq")
          /\ incurred' = incurred + (IF ok THEN c ELSE 0)
          /\ IF ok
                THEN UpdateCost(c, FALSE, FALSE, "prereq", "repo")
                ELSE Raise("Exception", AgentErrorReason) /\ UNCHANGED <<total_cost, lastCharge>>
    /\ UNCHANGED <<flags, results, start_time, repo_build, exploit, locals, top, iterEnd>>
    /\ UNCHANGED <<drvVars, sbxVars>>

PreReqLoad ==
    /\ pc = "prereq"
    /\ ~RunPreReq
    /\ \E found \in BOOLEAN :
          IF found
             THEN pc' = "repo" /\ UNCHANGED <<results, exc>>
             ELSE Return(Result("False", "Pre-Requsites Builder response not found"))
    /\ UNCHANGED <<flags, total_cost, start_time, now, repo_build, exploit, locals,
                   histVars>>
    /\ UNCHANGED <<drvVars, sbxVars>>

---------------------------------------------------------------------------
(* Phase 3: Repository-Build (lines 147-276) *)

\* both counters of a loop start at this value (lines 154, 289, 422)
FirstTry == 1

\* the reset written as the first attempt's number, forgetting the increment
\* that follows
TryAfterFeedback_one == FirstTry

\* the attempt counter is set to this on a critic rejection with feedback
\* (line 227), and is incremented at the end of the iteration (line 254)
TryAfterFeedback == 0

\* lines 152-155; builder_cost and critic_cost are get_cost() of the objects
\* repo_builder and critic of the current iteration
RepoLocals ==
    [repo_done |-> FALSE, repo_feedback |-> None, critic_feedback |-> None,
     repo_try |-> FirstTry, critic_try |-> FirstTry,
     res |-> [value |-> ""], builder_cost |-> 0, critic_cost |-> 0]

\* the builder's summary kept next to the critic's feedback
RepoOnFeedback_keepsSummary(l) ==
    [l EXCEPT !.critic_feedback = Some(l.res.feedback),
              !.repo_try = TryAfterFeedback]

\* lines 225-227: the critic's feedback replaces the builder's summary
RepoOnFeedback(l) ==
    [l EXCEPT !.critic_feedback = Some(l.res.feedback),
              !.repo_feedback = None,
              !.repo_try = TryAfterFeedback]

RepoStart ==
    /\ pc = "repo"
    /\ RunRepo
    /\ locals' = RepoLocals
    /\ pc' = "repo_loop"
    /\ calls' = NoCalls
    /\ UNCHANGED incurred
    /\ top' = NoTop
    /\ iterEnd' = "none"
    /\ UNCHANGED <<flags, exc, results, total_cost, start_time, now, repo_build, exploit,
                   lastCharge>>
    /\ UNCHANGED <<drvVars, sbxVars>>

\* lines 264-270
RepoLoad ==
    /\ pc = "repo"
    /\ ~RunRepo
    /\ \E found \in BOOLEAN, s \in {"yes", "no"} :
          IF found
             THEN /\ repo_build' = [success |-> s, time_left |-> Some(1)]
                  /\ pc' = "repo_check"
                  /\ UNCHANGED <<results, exc>>
             ELSE /\ Return(Result("False", "Repo Builder response not found"))
                  /\ UNCHANGED repo_build
    /\ UNCHANGED <<flags, total_cost, start_time, now, exploit, locals, histVars>>
    /\ UNCHANGED <<drvVars, sbxVars>>

\* line 157 true, then check_time (line 158)
RepoLoopTop ==
    /\ pc = "repo_loop"
    /\ LoopGuard(locals.repo_done, locals.repo_try, max_repo_tries,
                 locals.critic_try, max_critic_tries)
    /\ IF CheckTime("project_build", now) = None
          THEN /\ pc' = "repo_invoke"
               /\ top' = NewTop("project_build", locals.repo_try, locals.critic_try)
               /\ UNCHANGED exc
          ELSE /\ pc' = "except"
               /\ exc' = CheckTime("project_build", now)
               /\ UNCHANGED top
    /\ UNCHANGED <<flags, results, total_cost, start_time, now, repo_build, exploit,
                   locals, calls, incurred, iterEnd, lastCharge>>
    /\ UNCHANGED <<drvVars, sbxVars>>

\* line 157 false, then lines 256-262
RepoLoopExit ==
    /\ pc = "repo_loop"
    /\ ~LoopGuard(locals.repo_done, locals.repo_try, max_repo_tries,
                  locals.critic_try, max_critic_tries)
    /\ IF ~locals.repo_done
          THEN Return(Result("False", "Repo could not be built"))
          ELSE pc' = "repo_check" /\ UNCHANGED <<results, exc>>
    /\ UNCHANGED <<flags, total_cost, start_time, now, repo_build, exploit, locals,
                   histVars>>
    /\ UNCHANGED <<drvVars, sbxVars>>

\* lines 164-172: the agent attempt
RepoInvoke ==
    /\ pc = "repo_invoke"
    /\ \E d \in Durations, c \in CallCosts(0), v \in AgentValues, ok \in BOOLEAN :
          /\ now' = now + d
          /\ Invoked("repo")
          /\ incurred' = incurred + (IF ok THEN c ELSE 0)
          /\ IF ok
                THEN /\ locals' = [locals EXCEPT !.res = [value |-> v],
                                                 !.builder_cost = c,
                                                 !.critic_cost = 0,
                                                 !.critic_feedback = None]
                     /\ pc' = "repo_result"
                     /\ UNCHANGED exc
                ELSE /\ Raise("Exception", AgentErrorReason)
                     /\ UNCHANGED locals
    /\ UNCHANGED <<flags, results, total_cost, start_time, repo_build, exploit,
                   top, iterEnd, lastCharge>>
    /\ UNCHANGED <<drvVars, sbxVars>>

\* lines 175-186 and 254: max iterations, summarize while attempts remain
RepoMaxIterations ==
    /\ pc = "repo_result"
    /\ locals.res.value = MaxIterations
    /\ iterEnd' = "max_iterations"
    /\ IF locals.repo_try < max_repo_tries
          THEN \E d \in Durations, c \in CallCosts(locals.builder_cost), ok \in BOOLEAN :
                  /\ now' = now + d
                  /\ Invoked("repo_sum")
                  /\ incurred' = incurred + (IF ok THEN c ELSE 0)
                  /\ IF ok
                        THEN /\ UpdateCost(locals.builder_cost + c, FALSE, FALSE,
                                           "project_build", "repo_loop")
                             /\ locals' =
                                  [locals EXCEPT
                                     !.repo_feedback = Some(SummaryText(calls["repo_sum"] + 1)),
                                     !.critic_feedback = None,
                                     !.builder_cost = @ + c,
                                     !.repo_try = IF pc' = "repo_loop" THEN @ + 1 ELSE @]
                        ELSE /\ Raise("Exception", AgentErrorReason)
                             /\ UNCHANGED <<locals, total_cost, lastCharge>>
          ELSE /\ UpdateCost(locals.builder_cost, FALSE, FALSE, "project_build", "repo_loop")
               /\ locals' = [locals EXCEPT
                               !.repo_try = IF pc' = "repo_loop" THEN @ + 1 ELSE @]
               /\ UNCHANGED <<now, calls, incurred>>
    /\ UNCHANGED <<flags, results, start_time, repo_build, exploit, top>>
    /\ UNCHANGED <<drvVars, sbxVars>>

\* lines 188-196 and 241-252: the agent reports a failure
RepoFailed ==
    /\ pc = "repo_result"
    /\ locals.res.value = "no"
    /\ repo_build' = [success |-> "no", time_left |-> None]
    /\ iterEnd' = "failure"
    /\ IF locals.repo_try < max_repo_tries
          THEN \E d \in Durations, c \in CallCosts(locals.builder_cost), ok \in BOOLEAN :
                  /\ now' = now + d
                  /\ Invoked("repo_sum")
                  /\ incurred' = incurred + (IF ok THEN c ELSE 0)
                  /\ IF ok
                        THEN /\ locals' =
                                  [locals EXCEPT
                                     !.repo_feedback = Some(SummaryText(calls["repo_sum"] + 1)),
                                     !.critic_feedback = None,
                                     !.builder_cost = @ + c]
                             /\ pc' = "repo_charge"
                             /\ UNCHANGED exc
                        ELSE /\ Raise("Exception", AgentErrorReason)
                             /\ UNCHANGED locals
          ELSE /\ pc' = "repo_charge"
               /\ UNCHANGED <<now, calls, incurred, locals, exc>>
    /\ UNCHANGED <<flags, results, total_cost, start_time, exploit, top, lastCharge>>
    /\ UNCHANGED <<drvVars, sbxVars>>

\* lines 188-197 and 237-240: success, critic disabled
RepoSucceeded ==
    /\ pc = "repo_result"
    /\ locals.res.value = "yes"
    /\ ~UseRepoCritic
    /\ locals' = [locals EXCEPT !.repo_done = TRUE]
    /\ repo_build' = [success |-> "yes", time_left |-> Some(TimeLeft(now))]
    /\ iterEnd' = "success"
    /\ pc' = "repo_charge"
    /\ UNCHANGED <<flags, exc, results, total_cost, start_time, now, exploit,
                   calls, incurred, top, lastCharge>>
    /\ UNCHANGED <<drvVars, sbxVars>>

\* lines 188-207: success, the critic is invoked
RepoCritic ==
    /\ pc = "repo_result"
    /\ locals.res.value = "yes"
    /\ UseRepoCritic
    /\ repo_build' = [success |-> "yes", time_left |-> None]
    /\ \E d \in Durations, c \in CallCosts(locals.builder_cost),
          r \in CriticResults, ok \in BOOLEAN :
          /\ now' = now + d
          /\ Invoked("repo_critic")
          /\ incurred' = incurred + (IF ok THEN c ELSE 0)
          /\ IF ok
                THEN /\ locals' = [locals EXCEPT !.res = r,
                                                 !.critic_cost = c,
                                                 !.critic_try = @ + 1]
                     /\ pc' = "repo_decision"
                     /\ UNCHANGED exc
                ELSE /\ Raise("Exception", AgentErrorReason)
                     /\ UNCHANGED locals
    /\ UNCHANGED <<flags, results, total_cost, start_time, exploit, top, iterEnd,
                   lastCharge>>
    /\ UNCHANGED <<drvVars, sbxVars>>

\* lines 209-216: reject, not possible
RepoInfeasible ==
    /\ pc = "repo_decision"
    /\ locals.res.decision = "no"
    /\ locals.res.possible = "no"
    /\ results' = Result("False", "Not possible to build the repo!!!")
    /\ iterEnd' = "infeasible"
    /\ UpdateCost(locals.builder_cost, FALSE, TRUE, "project_build", "returned")
    /\ UNCHANGED <<flags, start_time, now, repo_build, exploit, locals, calls, incurred, top>>
    /\ UNCHANGED <<drvVars, sbxVars>>

\* lines 209-222: reject, possible, blank feedback
RepoNoFeedback ==
    /\ pc = "repo_decision"
    /\ locals.res.decision = "no"
    /\ locals.res.possible # "no"
    /\ Strip(locals.res.feedback) = ""
    /\ results' = Result("False", "No feedback to correct the setup!!!")
    /\ iterEnd' = "no_feedback"
    /\ UpdateCost(locals.builder_cost, FALSE, TRUE, "project_build", "returned")
    /\ UNCHANGED <<flags, start_time, now, repo_build, exploit, locals, calls, incurred, top>>
    /\ UNCHANGED <<drvVars, sbxVars>>

\* lines 224-227 and 235: reject with feedback
RepoRejected ==
    /\ pc = "repo_decision"
    /\ locals.res.decision = "no"
    /\ locals.res.possible # "no"
    /\ Strip(locals.res.feedback) # ""
    /\ locals' = RepoOnFeedback(locals)
    /\ iterEnd' = "critic_feedback"
    /\ UpdateCost(locals.critic_cost, locals.repo_done, FALSE, "project_build",
                  "repo_charge")
    /\ UNCHANGED <<flags, results, start_time, now, repo_build, exploit, calls, incurred, top>>
    /\ UNCHANGED <<drvVars, sbxVars>>

\* lines 229-235: accept
RepoAccepted ==
    /\ pc = "repo_decision"
    /\ locals.res.decision # "no"
    /\ locals' = [locals EXCEPT !.repo_done = TRUE]
    /\ repo_build' = [repo_build EXCEPT !.time_left = Some(TimeLeft(now))]
    /\ iterEnd' = "accepted"
    /\ UpdateCost(locals.critic_cost, TRUE, TRUE, "project_build", "repo_charge")
    /\ UNCHANGED <<flags, results, start_time, now, exploit, calls, incurred, top>>
    /\ UNCHANGED <<drvVars, sbxVars>>

\* lines 253-254
RepoCharge ==
    /\ pc = "repo_charge"
    /\ UpdateCost(locals.builder_cost, locals.repo_done, locals.repo_done,
                  "project_build", "repo_loop")
    /\ locals' = [locals EXCEPT !.repo_try = IF pc' = "repo_loop" THEN @ + 1 ELSE @]
    /\ UNCHANGED <<flags, results, start_time, now, repo_build, exploit, calls, incurred, top,
                   iterEnd>>
    /\ UNCHANGED <<drvVars, sbxVars>>

\* the stored failure not looked at
ReportsFailure_never(artifact) == FALSE

\* lines 274 and 408: artifact['success'].lower() == "no"
ReportsFailure(artifact) == artifact.success = "no"

\* lines 272-276
RepoCheck ==
    /\ pc = "repo_check"
    /\ IF ReportsFailure(repo_build)
          THEN Return(Result("False", "Repo was not built!!!"))
          ELSE pc' = "exploit" /\ UNCHANGED <<results, exc>>
    /\ UNCHANGED <<flags, total_cost, start_time, now, repo_build, exploit, locals,
                   histVars>>
    /\ UNCHANGED <<drvVars, sbxVars>>

---------------------------------------------------------------------------
(* Phase 4: Exploit (lines 278-410) *)

\* the attempt counter is set to this on a critic rejection with feedback
\* (line 359), and is incremented at the end of the iteration (line 386)
ExploitTryAfterFeedback == 0

\* lines 287-290; exploiter_cost and critic_cost are get_cost() of the objects
\* exploiter and critic of the current iteration
ExploitLocals ==
    [exploit_done |-> FALSE, exploit_feedback |-> None, exploit_critic_feedback |-> None,
     exploit_try |-> FirstTry, exploit_critic_try |-> FirstTry,
     res |-> [value |-> ""], exploiter_cost |-> 0, critic_cost |-> 0]

\* the exploiter's summary kept next to the critic's feedback
ExploitOnFeedback_keepsSummary(l) ==
    [l EXCEPT !.exploit_critic_feedback = Some(l.res.feedback),
              !.exploit_try = ExploitTryAfterFeedback]

\* lines 357-359: the critic's feedback replaces the exploiter's summary
ExploitOnFeedback(l) ==
    [l EXCEPT !.exploit_critic_feedback = Some(l.res.feedback),
              !.exploit_feedback = None,
              !.exploit_try = ExploitTryAfterFeedback]

ExploitStart ==
    /\ pc = "exploit"
    /\ RunExploit
    /\ locals' = ExploitLocals
    /\ pc' = "exploit_loop"
    /\ calls' = NoCalls
    /\ UNCHANGED incurred
    /\ top' = NoTop
    /\ iterEnd' = "none"
    /\ UNCHANGED <<flags, exc, results, total_cost, start_time, now, repo_build, exploit,
                   lastCharge>>
    /\ UNCHANGED <<drvVars, sbxVars>>

\* lines 398-404
ExploitLoad ==
    /\ pc = "exploit"
    /\ ~RunExploit
    /\ \E found \in BOOLEAN, s \in {"yes", "no"} :
          IF found
             THEN /\ exploit' = [success |-> s, time_left |-> Some(1)]
                  /\ pc' = "exploit_check"
                  /\ UNCHANGED <<results, exc>>
             ELSE /\ Return(Result("False", "Exploiter response not found"))
                  /\ UNCHANGED exploit
    /\ UNCHANGED <<flags, total_cost, start_time, now, repo_build, locals, histVars>>
    /\ UNCHANGED <<drvVars, sbxVars>>

\* line 292 true, then check_time (line 293)
ExploitLoopTop ==
    /\ pc = "exploit_loop"
    /\ LoopGuard(locals.exploit_done, locals.exploit_try, max_exploit_tries,
                 locals.exploit_critic_try, max_exploit_critic_tries)
    /\ IF CheckTime("exploit_build", now) = None
          THEN /\ pc' = "exploit_invoke"
               /\ top' = NewTop("exploit_build", locals.exploit_try,
                                locals.exploit_critic_try)
               /\ UNCHANGED exc
          ELSE /\ pc' = "except"
               /\ exc' = CheckTime("exploit_build", now)
               /\ UNCHANGED top
    /\ UNCHANGED <<flags, results, total_cost, start_time, now, repo_build, exploit,
                   locals, calls, incurred, iterEnd, lastCharge>>
    /\ UNCHANGED <<drvVars, sbxVars>>

\* line 292 false, then lines 388-396
ExploitLoopExit ==
    /\ pc = "exploit_loop"
    /\ ~LoopGuard(locals.exploit_done, locals.exploit_try, max_exploit_tries,
                  locals.exploit_critic_try, max_exploit_critic_tries)
    /\ IF ~locals.exploit_done
          THEN Return(Result("False", "Exploiter failed"))
          ELSE /\ results' = Result("True", "Exploit script created")
               /\ pc' = "exploit_check"
               /\ UNCHANGED exc
    /\ UNCHANGED <<flags, total_cost, start_time, now, repo_build, exploit, locals,
                   histVars>>
    /\ UNCHANGED <<drvVars, sbxVars>>

\* lines 298-306: the agent attempt; the critic feedback is not cleared here
ExploitInvoke ==
    /\ pc = "exploit_invoke"
    /\ \E d \in Durations, c \in CallCosts(0), v \in AgentValues, ok \in BOOLEAN :
          /\ now' = now + d
          /\ Invoked("exploit")
          /\ incurred' = incurred + (IF ok THEN c ELSE 0)
          /\ IF ok
                THEN /\ locals' = [locals EXCEPT !.res = [value |-> v],
                                                 !.exploiter_cost = c,
                                                 !.critic_cost = 0]
                     /\ pc' = "exploit_result"
                     /\ UNCHANGED exc
                ELSE /\ Raise("Exception", AgentErrorReason)
                     /\ UNCHANGED locals
    /\ UNCHANGED <<flags, results, total_cost, start_time, repo_build, exploit,
                   top, iterEnd, lastCharge>>
    /\ UNCHANGED <<drvVars, sbxVars>>

\* lines 309-320 and 386: max iterations, summarize while attempts remain
ExploitMaxIterations ==
    /\ pc = "exploit_result"
    /\ locals.res.value = MaxIterations
    /\ iterEnd' = "max_iterations"
    /\ IF locals.exploit_try < max_exploit_tries
          THEN \E d \in Durations, c \in CallCosts(locals.exploiter_cost), ok \in BOOLEAN :
                  /\ now' = now + d
                  /\ Invoked("exploit_sum")
                  /\ incurred' = incurred + (IF ok THEN c ELSE 0)
                  /\ IF ok
                        THEN /\ UpdateCost(locals.exploiter_cost + c, FALSE, FALSE,
                                           "exploit_build", "exploit_loop")
                             /\ locals' =
                                  [locals EXCEPT
                                     !.exploit_feedback =
                                         Some(SummaryText(calls["exploit_sum"] + 1)),
                                     !.exploit_critic_feedback = None,
                                     !.exploiter_cost = @ + c,
                                     !.exploit_try = IF pc' = "exploit_loop" THEN @ + 1 ELSE @]
                        ELSE /\ Raise("Exception", AgentErrorReason)
                             /\ UNCHANGED <<locals, total_cost, lastCharge>>
          ELSE /\ UpdateCost(locals.exploiter_cost, FALSE, FALSE, "exploit_build",
                             "exploit_loop")
               /\ locals' = [locals EXCEPT
                               !.exploit_try = IF pc' = "exploit_loop" THEN @ + 1 ELSE @]
               /\ UNCHANGED <<now, calls, incurred>>
    /\ UNCHANGED <<flags, results, start_time, repo_build, exploit, top>>
    /\ UNCHANGED <<drvVars, sbxVars>>

\* lines 322-330 and 373-384: the agent reports a failure
ExploitFailed ==
    /\ pc = "exploit_result"
    /\ locals.res.value = "no"
    /\ exploit' = [success |-> "no", time_left |-> None]
    /\ iterEnd' = "failure"
    /\ IF locals.exploit_try < max_exploit_tries
          THEN \E d \in Durations, c \in CallCosts(locals.exploiter_cost), ok \in BOOLEAN :
                  /\ now' = now + d
                  /\ Invoked("exploit_sum")
                  /\ incurred' = incurred + (IF ok THEN c ELSE 0)
                  /\ IF ok
                        THEN /\ locals' =
                                  [locals EXCEPT
                                     !.exploit_feedback =
                                         Some(SummaryText(calls["exploit_sum"] + 1)),
                                     !.exploit_critic_feedback = None,
                                     !.exploiter_cost = @ + c]
                             /\ pc' = "exploit_charge"
                             /\ UNCHANGED exc
                        ELSE /\ Raise("Exception", AgentErrorReason)
                             /\ UNCHANGED locals
          ELSE /\ pc' = "exploit_charge"
               /\ UNCHANGED <<now, calls, incurred, locals, exc>>
    /\ UNCHANGED <<flags, results, total_cost, start_time, repo_build, top, lastCharge>>
    /\ UNCHANGED <<drvVars, sbxVars>>

\* lines 322-331 and 369-372: success, critic disabled
ExploitSucceeded ==
    /\ pc = "exploit_result"
    /\ locals.res.value = "yes"
    /\ ~UseExploitCritic
    /\ locals' = [locals EXCEPT !.exploit_done = TRUE]
    /\ exploit' = [success |-> "yes", time_left |-> Some(TimeLeft(now))]
    /\ iterEnd' = "success"
    /\ pc' = "exploit_charge"
    /\ UNCHANGED <<flags, exc, results, total_cost, start_time, now, repo_build,
                   calls, incurred, top, lastCharge>>
    /\ UNCHANGED <<drvVars, sbxVars>>

\* lines 322-341: success, the critic is invoked
ExploitCritic ==
    /\ pc = "exploit_result"
    /\ locals.res.value = "yes"
    /\ UseExploitCritic
    /\ exploit' = [success |-> "yes", time_left |-> None]
    /\ \E d \in Durations, c \in CallCosts(locals.exploiter_cost),
          r \in CriticResults, ok \in BOOLEAN :
          /\ now' = now + d
          /\ Invoked("exploit_critic")
          /\ incurred' = incurred + (IF ok THEN c ELSE 0)
          /\ IF ok
                THEN /\ locals' = [locals EXCEPT !.res = r,
                                                 !.critic_cost = c,
                                                 !.exploit_critic_try = @ + 1]
                     /\ pc' = "exploit_decision"
                     /\ UNCHANGED exc
                ELSE /\ Raise("Exception", AgentErrorReason)
                     /\ UNCHANGED locals
    /\ UNCHANGED <<flags, results, total_cost, start_time, repo_build, top, iterEnd,
                   lastCharge>>
    /\ UNCHANGED <<drvVars, sbxVars>>

\* lines 343-349: reject, not possible; nothing is charged
ExploitInfeasible ==
    /\ pc = "exploit_decision"
    /\ locals.res.decision = "no"
    /\ locals.res.possible = "no"
    /\ iterEnd' = "infeasible"
    /\ Return(Result("False", "Not possible to exploit the vulnerability!!!"))
    /\ UNCHANGED <<flags, total_cost, start_time, now, repo_build, exploit, locals,
                   calls, incurred, top, lastCharge>>
    /\ UNCHANGED <<drvVars, sbxVars>>

\* lines 343-354: reject, possible, blank feedback; nothing is charged
ExploitNoFeedback ==
    /\ pc = "exploit_decision"
    /\ locals.res.decision = "no"
    /\ locals.res.possible # "no"
    /\ Strip(locals.res.feedback) = ""
    /\ iterEnd' = "no_feedback"
    /\ Return(Result("False", "No feedback to correct the exploit!!!"))
    /\ UNCHANGED <<flags, total_cost, start_time, now, repo_build, exploit, locals,
                   calls, incurred, top, lastCharge>>
    /\ UNCHANGED <<drvVars, sbxVars>>

\* lines 356-359 and 367: reject with feedback
ExploitRejected ==
    /\ pc = "exploit_decision"
    /\ locals.res.decision = "no"
    /\ locals.res.possible # "no"
    /\ Strip(locals.res.feedback) # ""
    /\ locals' = ExploitOnFeedback(locals)
    /\ iterEnd' = "critic_feedback"
    /\ UpdateCost(locals.critic_cost, locals.exploit_done, FALSE, "exploit_build",
                  "exploit_charge")
    /\ UNCHANGED <<flags, results, start_time, now, repo_build, exploit, calls, incurred, top>>
    /\ UNCHANGED <<drvVars, sbxVars>>

\* lines 361-367: accept
ExploitAccepted ==
    /\ pc = "exploit_decision"
    /\ locals.res.decision # "no"
    /\ locals' = [locals EXCEPT !.exploit_done = TRUE]
    /\ exploit' = [exploit EXCEPT !.time_left = Some(TimeLeft(now))]
    /\ iterEnd' = "accepted"
    /\ UpdateCost(locals.critic_cost, TRUE, TRUE, "exploit_build", "exploit_charge")
    /\ UNCHANGED <<flags, results, start_time, now, repo_build, calls, incurred, top>>
    /\ UNCHANGED <<drvVars, sbxVars>>

\* lines 385-386
ExploitCharge ==
    /\ pc = "exploit_charge"
    /\ UpdateCost(locals.exploiter_cost, locals.exploit_done, locals.exploit_done,
                  "exploit_build", "exploit_loop")
    /\ locals' = [locals EXCEPT !.exploit_try = IF pc' = "exploit_loop" THEN @ + 1 ELSE @]
    /\ UNCHANGED <<flags, results, start_time, now, repo_build, exploit, calls, incurred, top,
                   iterEnd>>
    /\ UNCHANGED <<drvVars, sbxVars>>

\* lines 406-410
ExploitCheck ==
    /\ pc = "exploit_check"
    /\ IF ReportsFailure(exploit)
          THEN Return(Result("False", "Exploit was not generated!!!"))
          ELSE pc' = "verify" /\ UNCHANGED <<results, exc>>
    /\ UNCHANGED <<flags, total_cost, start_time, now, repo_build, exploit, locals,
                   histVars>>
    /\ UNCHANGED <<drvVars, sbxVars>>

---------------------------------------------------------------------------
(* Phase 5: Verify (lines 412-510) *)

\* the reset written as the first attempt's number
VerifyTryAfterFeedback_first == FirstTry

\* the attempt counter is set to this on a sanity rejection with fix steps
\* (line 485), and is incremented at the end of the iteration (line 499)
VerifyTryAfterFeedback == 0

\* what the sanity critic returns (steps_to_fix is tested for emptiness)
SanityResults ==
    {[decision |-> "yes", steps_to_fix |-> ""]}
    \cup {[decision |-> "no", steps_to_fix |-> s] : s \in {"", "fix Y"}}

\* lines 484 and 498: the feedback texts, built from the verifier artifact
FixFeedback(verifier, steps) ==
    [previous_code |-> verifier, proposed_fixes |-> steps]

\* the feedback built without the previous artifact
LogFeedback_noCode(verifier, log) ==
    [previous_code |-> 0, output_logs |-> log]

\* line 498
LogFeedback(verifier, log) ==
    [previous_code |-> verifier, output_logs |-> log]

\* lines 421-424; ctf_verifier is the artifact (numbered by attempt), check and
\* val_log the validator's answer, verifier_cost and sanity_cost get_cost() of
\* the objects ctf_verifier and sanity_guy of the current iteration
VerifyLocals ==
    [verifier_done |-> FALSE, try_itr |-> FirstTry, sanity_itr |-> FirstTry, ctf_feedback |-> None,
     ctf_verifier |-> 0, check |-> FALSE, val_log |-> 0,
     res |-> [decision |-> "", steps_to_fix |-> ""],
     verifier_cost |-> 0, sanity_cost |-> 0]

\* lines 484-485: the fix steps become the feedback of the next attempt
VerifyOnFeedback(l) ==
    [l EXCEPT !.ctf_feedback = Some(FixFeedback(l.ctf_verifier, l.res.steps_to_fix)),
              !.try_itr = VerifyTryAfterFeedback]

VerifyStart ==
    /\ pc = "verify"
    /\ RunVerifier
    /\ locals' = VerifyLocals
    /\ pc' = "verify_loop"
    /\ calls' = NoCalls
    /\ UNCHANGED incurred
    /\ top' = NoTop
    /\ iterEnd' = "none"
    /\ UNCHANGED <<flags, exc, results, total_cost, start_time, now, repo_build, exploit,
                   lastCharge>>
    /\ UNCHANGED <<drvVars, sbxVars>>

\* line 412 false: run() ends
VerifySkip ==
    /\ pc = "verify"
    /\ ~RunVerifier
    /\ pc' = "returned"
    /\ UNCHANGED <<flags, exc, results, total_cost, start_time, now, repo_build, exploit,
                   locals, histVars>>
    /\ UNCHANGED <<drvVars, sbxVars>>

\* line 426 true, then check_time (line 427)
VerifyLoopTop ==
    /\ pc = "verify_loop"
    /\ LoopGuard(locals.verifier_done, locals.try_itr, max_flag_tries,
                 locals.sanity_itr, max_sanity_tries)
    /\ IF CheckTime("verifier_build", now) = None
          THEN /\ pc' = "verify_invoke"
               /\ top' = NewTop("verifier_build", locals.try_itr, locals.sanity_itr)
               /\ UNCHANGED exc
          ELSE /\ pc' = "except"
               /\ exc' = CheckTime("verifier_build", now)
               /\ UNCHANGED top
    /\ UNCHANGED <<flags, results, total_cost, start_time, now, repo_build, exploit,
                   locals, calls, incurred, iterEnd, lastCharge>>
    /\ UNCHANGED <<drvVars, sbxVars>>

\* line 426 false, then lines 502-510
VerifyLoopExit ==
    /\ pc = "verify_loop"
    /\ ~LoopGuard(locals.verifier_done, locals.try_itr, max_flag_tries,
                  locals.sanity_itr, max_sanity_tries)
    /\ IF ~locals.verifier_done
          THEN Return(Result("False", "CTF Verifier failed"))
          ELSE Return(Result("True", "CTF Verifier done! CVE reproduced!"))
    /\ UNCHANGED <<flags, total_cost, start_time, now, repo_build, exploit, locals,
                   histVars>>
    /\ UNCHANGED <<drvVars, sbxVars>>

\* lines 434-444: the verifier agent produces an artifact
VerifyInvoke ==
    /\ pc = "verify_invoke"
    /\ \E d \in Durations, c \in CallCosts(0), ok \in BOOLEAN :
          /\ now' = now + d
          /\ Invoked("verifier")
          /\ incurred' = incurred + (IF ok THEN c ELSE 0)
          /\ IF ok
                THEN /\ locals' = [locals EXCEPT !.ctf_verifier = calls["verifier"] + 1,
                                                 !.verifier_cost = c,
                                                 !.sanity_cost = 0]
                     /\ pc' = "verify_validate"
                     /\ UNCHANGED exc
                ELSE /\ Raise("Exception", AgentErrorReason)
                     /\ UNCHANGED locals
    /\ UNCHANGED <<flags, results, total_cost, start_time, repo_build, exploit,
                   top, iterEnd, lastCharge>>
    /\ UNCHANGED <<drvVars, sbxVars>>

\* lines 451-454: the validator runs the artifact
VerifyValidate ==
    /\ pc = "verify_validate"
    /\ \E found \in BOOLEAN :
          locals' = [locals EXCEPT !.check = found, !.val_log = locals.ctf_verifier]
    /\ Invoked("validator")
    /\ UNCHANGED incurred
    /\ pc' = "verify_result"
    /\ UNCHANGED <<flags, exc, results, total_cost, start_time, now, repo_build, exploit,
                   top, iterEnd, lastCharge>>
    /\ UNCHANGED <<drvVars, sbxVars>>

\* lines 495-500: flag not found
VerifyNotFound ==
    /\ pc = "verify_result"
    /\ ~locals.check
    /\ locals' = [locals EXCEPT
                    !.ctf_feedback = Some(LogFeedback(locals.ctf_verifier, locals.val_log)),
                    !.try_itr = @ + 1]
    /\ iterEnd' = "not_found"
    /\ UpdateCost(locals.verifier_cost, TRUE, FALSE, "verifier_build", "verify_loop")
    /\ UNCHANGED <<flags, results, start_time, now, repo_build, exploit, calls, incurred, top>>
    /\ UNCHANGED <<drvVars, sbxVars>>

\* lines 456-459 and 491-500: flag found, sanity check disabled
VerifyFound ==
    /\ pc = "verify_result"
    /\ locals.check
    /\ ~UseSanityCheck
    /\ locals' = [locals EXCEPT !.verifier_done = TRUE, !.try_itr = @ + 1]
    /\ iterEnd' = "success"
    /\ UpdateCost(locals.verifier_cost, TRUE, TRUE, "verifier_build", "verify_loop")
    /\ UNCHANGED <<flags, results, start_time, now, repo_build, exploit, calls, incurred, top>>
    /\ UNCHANGED <<drvVars, sbxVars>>

\* lines 456-473: flag found, the sanity critic is invoked
VerifySanity ==
    /\ pc = "verify_result"
    /\ locals.check
    /\ UseSanityCheck
    /\ \E d \in Durations, c \in CallCosts(locals.verifier_cost),
          r \in SanityResults, ok \in BOOLEAN :
          /\ now' = now + d
          /\ Invoked("sanity")
          /\ incurred' = incurred + (IF ok THEN c ELSE 0)
          /\ IF ok
                THEN /\ locals' = [locals EXCEPT !.res = r,
                                                 !.sanity_cost = c,
                                                 !.sanity_itr = @ + 1]
                     /\ pc' = "verify_decision"
                     /\ UNCHANGED exc
                ELSE /\ Raise("Exception", AgentErrorReason)
                     /\ UNCHANGED locals
    /\ UNCHANGED <<flags, results, total_cost, start_time, repo_build, exploit,
                   top, iterEnd, lastCharge>>
    /\ UNCHANGED <<drvVars, sbxVars>>

\* lines 475-481: reject without fix steps; nothing is charged
VerifyNoFeedback ==
    /\ pc = "verify_decision"
    /\ locals.res.decision = "no"
    /\ locals.res.steps_to_fix = ""
    /\ iterEnd' = "no_feedback"
    /\ Return(Result("False", "No feedback to correct the verifier!!!"))
    /\ UNCHANGED <<flags, total_cost, start_time, now, repo_build, exploit, locals,
                   calls, incurred, top, lastCharge>>
    /\ UNCHANGED <<drvVars, sbxVars>>

\* lines 483-485 and 490: reject with fix steps
VerifyRejected ==
    /\ pc = "verify_decision"
    /\ locals.res.decision = "no"
    /\ locals.res.steps_to_fix # ""
    /\ locals' = VerifyOnFeedback(locals)
    /\ iterEnd' = "critic_feedback"
    /\ UpdateCost(locals.sanity_cost, TRUE, FALSE, "verifier_build", "verify_charge")
    /\ UNCHANGED <<flags, results, start_time, now, repo_build, exploit, calls, incurred, top>>
    /\ UNCHANGED <<drvVars, sbxVars>>

\* lines 486-490: accept
VerifyAccepted ==
    /\ pc = "verify_decision"
    /\ locals.res.decision # "no"
    /\ locals' = [locals EXCEPT !.verifier_done = TRUE]
    /\ iterEnd' = "accepted"
    /\ UpdateCost(locals.sanity_cost, TRUE, TRUE, "verifier_build", "verify_charge")
    /\ UNCHANGED <<flags, results, start_time, now, repo_build, exploit, calls, incurred, top>>
    /\ UNCHANGED <<drvVars, sbxVars>>

\* lines 499-500, after the sanity critic
VerifyCharge ==
    /\ pc = "verify_charge"
    /\ locals' = [locals EXCEPT !.try_itr = @ + 1]
    /\ UpdateCost(locals.verifier_cost, TRUE, locals.verifier_done, "verifier_build",
                  "verify_loop")
    /\ UNCHANGED <<flags, results, start_time, now, repo_build, exploit, calls, incurred, top,
                   iterEnd>>
    /\ UNCHANGED <<drvVars, sbxVars>>

---------------------------------------------------------------------------
(* The exception handlers of run() (lines 512-519) *)

\* except TimeoutExpired: the result is recorded and the exception re-raised
HandleTimeout ==
    /\ pc = "except"
    /\ exc[1].type = "TimeoutExpired"
    /\ results' = Result("False", exc[1].message)
    /\ pc' = "raised"
    /\ UNCHANGED <<flags, exc, total_cost, start_time, now, repo_build, exploit, locals,
                   histVars>>
    /\ UNCHANGED <<drvVars, sbxVars>>

\* except Exception: the result is recorded and run() returns
HandleException ==
    /\ pc = "except"
    /\ exc[1].type # "TimeoutExpired"
    /\ Return(Result("False", exc[1].message))
    /\ UNCHANGED <<flags, total_cost, start_time, now, repo_build, exploit, locals,
                   histVars>>
    /\ UNCHANGED <<drvVars, sbxVars>>

---------------------------------------------------------------------------
---------------------------------------------------------------------------
(* The driver (lines 524-579) and its alarm (lines 13-14 and 566-567) *)

\* --run-type, split at the commas (lines 544 and 550)
RunTypes ==
    {{"build"}, {"exploit"}, {"verify"}, {"build", "exploit"}, {"exploit", "verify"},
     {"build", "exploit", "verify"}}

\* lines 552-562: the switches the driver turns on for a run type
SwitchesOf(rt) ==
    [f \in Flags |->
        CASE f \in {"KB", "PRE_REQ", "REPO", "REPO_CRITIC"} -> "build" \in rt
          [] f \in {"EXPLOIT", "EXPLOIT_CRITIC"} -> "exploit" \in rt
          [] OTHER -> "verify" \in rt]

\* the switches are as the driver itself sets them
AsDriverSets == \E rt \in RunTypes : flags = SwitchesOf(rt)

\* the settings run() is entered with for a run type: the phases as the driver
\* selects them; a critic switch is, as in FlagSettings, also taken off
DriverSettings(rt) ==
    {f \in FlagSettings :
        \A k \in {"KB", "PRE_REQ", "REPO", "EXPLOIT", "CTF_VERIFIER"} :
            f[k] = SwitchesOf(rt)[k]}

\* the module is loaded: the switches have their defaults (lines 30-39)
ModuleLoaded ==
    /\ flags = [f \in Flags |-> FALSE]
    /\ pc = "main"
    /\ exc = None
    /\ results = EmptyResults
    /\ total_cost = 0
    /\ start_time = None
    /\ now = Clock0
    /\ repo_build = NoArtifact
    /\ exploit = NoArtifact
    /\ locals = NoLocals
    /\ calls = NoCalls
    /\ top = NoTop
    /\ iterEnd = "none"
    /\ lastCharge = NoCharge
    /\ incurred = 0
    /\ alarm = "unset"
    /\ record = None

\* the driver is started: main.py and what it imports are loaded
DriverInit == ModuleLoaded /\ SandboxLoaded

\* lines 550-570: the switches are set, the alarm is armed and run() is entered
DriverStart ==
    /\ pc = "main"
    /\ \E rt \in RunTypes : flags' \in DriverSettings(rt)
    /\ alarm' = "armed"
    /\ pc' = "knowledge"
    /\ UNCHANGED <<exc, results, total_cost, start_time, now, repo_build, exploit,
                   locals, histVars, record,
                   sbxVars>>

\* what alarm_handler raises: TimeoutExpired without a phase (lines 8-14)
AlarmException == Some([type |-> "TimeoutExpired", message |-> "Timeout expired"])

\* run() is at a call of an agent, a critic or the validator
InCall ==
    \/ pc = "knowledge" /\ RunKnowledge
    \/ pc = "prereq" /\ RunPreReq
    \/ pc \in {"repo_invoke", "exploit_invoke", "verify_invoke", "verify_validate"}
    \/ /\ pc = "repo_result"
       /\ IF locals.res.value = "yes" THEN UseRepoCritic
                                      ELSE locals.repo_try < max_repo_tries
    \/ /\ pc = "exploit_result"
       /\ IF locals.res.value = "yes" THEN UseExploitCritic
                                      ELSE locals.exploit_try < max_exploit_tries
    \/ pc = "verify_result" /\ locals.check /\ UseSanityCheck

\* the calls of the three loops run commands through toolbox.command_ops, whose
\* handlers (command_ops.py lines 185 and 203) catch what is raised under them
CanSwallow == pc \notin {"knowledge", "prereq"}

\* the alarm is due during a call: TimeoutExpired is raised in it and reaches
\* the handlers of run(), or it is caught below the call, which goes on
AlarmInCall ==
    /\ Armed
    /\ InCall
    /\ alarm' = "fired"
    /\ now' = AlarmAt
    /\ start_time' = IF pc = "knowledge" THEN StartTimer(now) ELSE start_time
    /\ \E swallowed \in BOOLEAN :
          IF swallowed /\ CanSwallow
             THEN UNCHANGED <<pc, exc>>
             ELSE pc' = "except" /\ exc' = AlarmException
    /\ UNCHANGED <<flags, results, total_cost, repo_build, exploit, locals, histVars,
                   record,
                   sbxVars>>

\* the alarm is due while a handler of run() is at work (lines 513-514 or
\* 518-519), before or after the handler has assigned self.results: the
\* exception raised in the handler leaves run()
AlarmInHandler ==
    /\ Armed
    /\ pc = "except"
    /\ now = AlarmAt
    /\ alarm' = "fired"
    /\ \E assigned \in BOOLEAN :
          results' = IF assigned THEN Result("False", exc[1].message) ELSE results
    /\ exc' = AlarmException
    /\ pc' = "raised"
    /\ UNCHANGED <<flags, total_cost, start_time, now, repo_build, exploit, locals,
                   histVars, record,
                   sbxVars>>

\* signal.alarm(0): a pending alarm is cancelled; one that has fired is gone
Disarm(a) == IF a = "armed" THEN "off" ELSE a

\* line 570: run() has returned and the driver goes on at line 574
DriverReturn ==
    /\ pc = "returned"
    /\ alarm # "unset"
    /\ pc' = "finalize"
    /\ UNCHANGED <<flags, exc, results, total_cost, start_time, now, repo_build, exploit,
                   locals, histVars, drvVars,
                   sbxVars>>

\* lines 571-572: whatever run() raised is caught and the alarm cancelled
DriverCatch ==
    /\ pc = "raised"
    /\ alarm # "unset"
    /\ alarm' = Disarm(alarm)
    /\ exc' = None
    /\ pc' = "finalize"
    /\ UNCHANGED <<flags, results, total_cost, start_time, now, repo_build, exploit,
                   locals, histVars, record,
                   sbxVars>>

\* the alarm is due at lines 574-576, before signal.alarm(0) has been called:
\* TimeoutExpired is raised outside every try and ends the process
AlarmInDriver ==
    /\ Armed
    /\ pc = "finalize"
    /\ now = AlarmAt
    /\ alarm' = "fired"
    /\ exc' = AlarmException
    /\ pc' = "crashed"
    /\ UNCHANGED <<flags, results, total_cost, start_time, now, repo_build, exploit,
                   locals, histVars, record,
                   sbxVars>>

\* signal.alarm(0) returns the seconds the pending alarm had left, 0 without one
Remaining == IF Armed THEN AlarmAt - now ELSE 0

\* lines 575-577: the result with cost, time and model added
Persisted(res, cost, time) ==
    [k \in DOMAIN res \cup {"cost", "time", "model"} |->
        CASE k = "cost" -> cost
          [] k = "time" -> time
          [] k = "model" -> "MODEL"
          [] OTHER -> res[k]]

\* lines 574-579: the alarm is cancelled and the result is saved
DriverFinalize ==
    /\ pc = "finalize"
    /\ alarm' = Disarm(alarm)
    /\ results' = Persisted(results, total_cost, TIMEOUT - Remaining)
    /\ record' = Some(results')
    /\ pc' = "saved"
    /\ UNCHANGED <<flags, exc, total_cost, start_time, now, repo_build, exploit, locals,
                   histVars,
                   sbxVars>>

Next ==
    \/ KnowledgeRun
    \/ KnowledgeLoad
    \/ PreReqRun
    \/ PreReqLoad
    \/ RepoStart
    \/ RepoLoad
    \/ RepoLoopTop
    \/ RepoLoopExit
    \/ RepoInvoke
    \/ RepoMaxIterations
    \/ RepoFailed
    \/ RepoSucceeded
    \/ RepoCritic
    \/ RepoInfeasible
    \/ RepoNoFeedback
    \/ RepoRejected
    \/ RepoAccepted
    \/ RepoCharge
    \/ RepoCheck
    \/ ExploitStart
    \/ ExploitLoad
    \/ ExploitLoopTop
    \/ ExploitLoopExit
    \/ ExploitInvoke
    \/ ExploitMaxIterations
    \/ ExploitFailed
    \/ ExploitSucceeded
    \/ ExploitCritic
    \/ ExploitInfeasible
    \/ ExploitNoFeedback
    \/ ExploitRejected
    \/ ExploitAccepted
    \/ ExploitCharge
    \/ ExploitCheck
    \/ VerifyStart
    \/ VerifySkip
    \/ VerifyLoopTop
    \/ VerifyLoopExit
    \/ VerifyInvoke
    \/ VerifyValidate
    \/ VerifyNotFound
    \/ VerifyFound
    \/ VerifySanity
    \/ VerifyNoFeedback
    \/ VerifyRejected
    \/ VerifyAccepted
    \/ VerifyCharge
    \/ HandleTimeout
    \/ HandleException

Spec == Init /\ [][Next]_vars

\* run() where every invocation made returns or raises, and the statement
\* run() is at is executed
LiveSpec == Spec /\ WF_vars(Next)


\* the program as its driver runs it
DriverNext ==
    \/ Next
    \/ DriverStart
    \/ AlarmInCall
    \/ AlarmInHandler
    \/ DriverReturn
    \/ DriverCatch
    \/ AlarmInDriver
    \/ DriverFinalize

DriverSpec == DriverInit /\ [][DriverNext]_vars
---------------------------------------------------------------------------
(* toolbox/command_ops.py: the commands the agents run in the shell *)

\* the names and values an agent sets
Keys == {"FOO", "BAR"}
Values == {"1", "2"}

\* {} (lines 52, 74 and 178)
EmptyEnv == << >>

\* os.environ of the program
OsEnviron == [k \in {"PATH", "FOO"} |-> IF k = "PATH" THEN "/usr/bin" ELSE "0"]

\* base | overlay (lines 125 and 163): a key of both takes the overlay's value
Merge(base, overlay) ==
    [k \in DOMAIN base \cup DOMAIN overlay |->
        IF k \in DOMAIN overlay THEN overlay[k] ELSE base[k]]

\* d[key] = value (line 75)
Put(d, key, value) ==
    [k \in DOMAIN d \cup {key} |-> IF k = key THEN value ELSE d[k]]

\* what a mutated handler would do: clear is not looked at
Cleared_never(e, clear) == e

\* lines 73-74: if clear: env = {}
Cleared(e, clear) == IF clear THEN EmptyEnv ELSE e

\* uuid.uuid4().hex[:5] (line 194): five hexadecimal digits
LogIds == {"0a1b2", "f9e8d"}

\* line 194: the path of a log file
create_unique_logfile(id, suffix) == <<"/tmp", id, suffix>>

\* how long a command runs, in seconds
CommandDurations == {QuickRun, SlowRun}

\* what a process does with SIGTERM
OnTerm == {"dies", "ignores"}

\* the pids of the processes still running
Running == {p \in DOMAIN os_procs : os_procs[p].state = "running"}

\* line 128
TimedOutText ==
    "Timed out! If this command starts a server/anything that expects input, try using execute_command_background"

\* a call of command_ops, as recorded in ops
Call(name) ==
    [name |-> name, key |-> "", value |-> "", clear |-> FALSE, pid |-> 0,
     stdout_log |-> << >>, stderr_log |-> << >>, ran_with |-> EmptyEnv,
     alive |-> {}, registered |-> {}, failed |-> {}, duration |-> 0, elapsed |-> 0,
     outcome |-> "returned", ret |-> "", shown |-> EmptyEnv]

\* lines 55-77
set_environment_variable ==
    /\ Len(ops) < MaxOps
    /\ \E key \in Keys, value \in Values, clear \in BOOLEAN :
          /\ env' = Put(Cleared(env, clear), key, value)
          /\ ops' = Append(ops, [Call("set_environment_variable") EXCEPT
                                    !.key = key, !.value = value, !.clear = clear,
                                    !.registered = background_process_list,
                                    !.ret = "Success, current env_list", !.shown = env'])
    /\ UNCHANGED <<background_process_list, os_procs, tailVars, progVars, histVars,
                   drvVars>>

\* what a mutated handler would do: TimeoutExpired is not caught
ForegroundReturn_raise(duration) ==
    IF duration > FOREGROUND_TIMEOUT
        THEN [outcome |-> "raised", ret |-> "TimeoutExpired"]
        ELSE [outcome |-> "returned", ret |-> "tail"]

\* lines 113-131: subprocess.run raises TimeoutExpired when the command is not
\* done after timeout seconds, which is caught; else the tail of the logs
ForegroundReturn(duration) ==
    IF duration > FOREGROUND_TIMEOUT
        THEN [outcome |-> "returned", ret |-> TimedOutText]
        ELSE [outcome |-> "returned", ret |-> "tail"]

Min(a, b) == IF a < b THEN a ELSE b

\* lines 97-131 (called at line 95 and by execute_ls_command)
execute_command_foreground ==
    /\ Len(ops) < MaxOps
    /\ \E out \in LogIds, err \in LogIds, duration \in CommandDurations :
          ops' = Append(ops, [Call("execute_command_foreground") EXCEPT
                                 !.stdout_log = create_unique_logfile(out, "stdout"),
                                 !.stderr_log = create_unique_logfile(err, "stderr"),
                                 !.ran_with = Merge(OsEnviron, env),
                                 !.alive = Running,
                                 !.registered = background_process_list,
                                 !.duration = duration,
                                 !.elapsed = Min(duration, FOREGROUND_TIMEOUT),
                                 !.outcome = ForegroundReturn(duration).outcome,
                                 !.ret = ForegroundReturn(duration).ret])
    /\ UNCHANGED <<env, background_process_list, os_procs, tailVars, progVars,
                   histVars, drvVars>>

\* what a mutated handler would do: process.wait() in place of time.sleep(5)
Waited_forExit(life) == life

\* line 169: time.sleep(5), however long the process lives
Waited(life) == SETTLE_DELAY

\* line 167: background_process_list[process.pid] = process
Registered(registry, pid) == registry \cup {pid}

\* lines 135-172 (called at line 93)
execute_command_background ==
    /\ Len(ops) < MaxOps
    /\ Len(os_procs) < MaxProcs
    /\ \E out \in LogIds, err \in LogIds, life \in CommandDurations, onterm \in OnTerm :
          LET pid == Len(os_procs) + 1
              stdout == create_unique_logfile(out, "stdout")
              stderr == create_unique_logfile(err, "stderr")
              exited == life <= Waited(life)
          IN  /\ os_procs' = Append(os_procs,
                    [state |-> IF exited THEN "exited" ELSE "running",
                     onterm |-> onterm, life |-> life,
                     exited_at |-> IF exited THEN Len(ops) + 1 ELSE 0])
              /\ background_process_list' = Registered(background_process_list, pid)
              /\ ops' = Append(ops, [Call("execute_command_background") EXCEPT
                                        !.pid = pid,
                                        !.stdout_log = stdout,
                                        !.stderr_log = stderr,
                                        !.ran_with = Merge(OsEnviron, env),
                                        !.alive = Running,
                                        !.registered = background_process_list,
                                        !.duration = life,
                                        !.elapsed = Waited(life),
                                        !.ret = "tail"])
    /\ UNCHANGED <<env, tailVars, progVars, histVars, drvVars>>

\* a background process comes to its end by itself
ProcessExits ==
    /\ \E p \in Running :
          os_procs' = [os_procs EXCEPT ![p].state = "exited", ![p].exited_at = Len(ops)]
    /\ UNCHANGED <<env, background_process_list, ops, tailVars, progVars, histVars,
                   drvVars>>

\* what a mutated handler would do: the entry is deleted in the try block
AfterSignal_else(registry, pid, failed) ==
    IF failed THEN registry ELSE registry \ {pid}

\* lines 188-190: finally: del background_process_list[pid]
AfterSignal(registry, pid, failed) == registry \ {pid}

\* lines 180-190: the loop over list(background_process_list.keys()), in the
\* order the processes were entered; os.killpg fails for the pids in fails
RECURSIVE CleanupLoop(_, _, _)
CleanupLoop(pids, registry, fails) ==
    IF pids = << >>
        THEN registry
        ELSE CleanupLoop(Tail(pids), AfterSignal(registry, Head(pids), Head(pids) \in fails),
                         fails)

\* the keys of the registry in the order they were entered
KeyList(registry) ==
    LET F[n \in 0..Len(os_procs)] ==
            IF n = 0 THEN << >>
            ELSE IF n \in registry THEN Append(F[n - 1], n) ELSE F[n - 1]
    IN  F[Len(os_procs)]

\* line 183: SIGTERM reaches the process group of the process
Signalled(proc, at) ==
    IF proc.state = "running" /\ proc.onterm = "dies"
        THEN [proc EXCEPT !.state = "exited", !.exited_at = at]
        ELSE proc

\* lines 174-190
cleanup_background_processes ==
    /\ Len(ops) < MaxOps
    /\ env' = EmptyEnv
    /\ \E fails \in SUBSET background_process_list :
          /\ os_procs' = [p \in DOMAIN os_procs |->
                            IF p \in background_process_list \ fails
                                THEN Signalled(os_procs[p], Len(ops) + 1)
                                ELSE os_procs[p]]
          /\ background_process_list' =
                CleanupLoop(KeyList(background_process_list), background_process_list,
                            fails)
          /\ ops' = Append(ops, [Call("cleanup_background_processes") EXCEPT
                                    !.alive = Running,
                                    !.registered = background_process_list,
                                    !.failed = fails,
                                    !.ret = "None"])
    /\ UNCHANGED <<tailVars, progVars, histVars, drvVars>>

\* the calls the agents and the pipeline make, and what the processes do
ToolNext ==
    \/ set_environment_variable
    \/ execute_command_foreground
    \/ execute_command_background
    \/ ProcessExits
    \/ cleanup_background_processes

\* command_ops as it is used once the program is loaded
ToolInit == ModuleLoaded /\ SandboxLoaded

ToolSpec == ToolInit /\ [][ToolNext]_vars
---------------------------------------------------------------------------
(* toolbox/command_ops.py: the tail of the two logs of a command *)

\* a log file of n lines as file.readlines() gives it (line 201): line i of the
\* file is written i here
Lines(n) == [i \in 1..n |-> i]

\* the log files there can be: one that cannot be opened, or one of n lines
LogFiles ==
    {[readable |-> FALSE, lines |-> << >>]}
        \cup {[readable |-> TRUE, lines |-> Lines(n)] : n \in 0..MaxLines}

\* what a mutated function would do: r[:line_count]
Slice_head(r, line_count) == SubSeq(r, 1, Min(line_count, Len(r)))

\* r[-line_count:] (line 202): from index len(r) - line_count, or from 0 when that
\* is negative; -0 is 0, the whole list
Slice(r, line_count) ==
    LET from == IF line_count = 0 \/ Len(r) < line_count THEN 0 ELSE Len(r) - line_count
    IN  SubSeq(r, from + 1, Len(r))

\* lines 197-204: the joined lines, kept apart here, with the number of lines
\* of the file; a string when the file cannot be read
get_last_lines(file, line_count) ==
    IF file.readable
        THEN [pair |-> TRUE, text |-> Slice(file.lines, line_count),
              len |-> Len(file.lines)]
        ELSE [pair |-> FALSE, text |-> << >>, len |-> 0]

\* lines 206-213: each return of get_last_lines is unpacked into two names,
\* which raises ValueError for the string; else the text is put together
get_tail_log(out, err) ==
    LET o == get_last_lines(out, LINE_COUNT)
        e == get_last_lines(err, LINE_COUNT)
    IN  IF o.pair /\ e.pair
            THEN [outcome |-> "returned",
                  stdout_shown |-> Min(100, o.len), stdout_len |-> o.len,
                  last_stdout_lines |-> o.text,
                  stderr_shown |-> Min(100, e.len), stderr_len |-> e.len,
                  last_stderr_lines |-> e.text]
            ELSE [outcome |-> "raised",
                  stdout_shown |-> 0, stdout_len |-> 0, last_stdout_lines |-> << >>,
                  stderr_shown |-> 0, stderr_len |-> 0, last_stderr_lines |-> << >>]

\* lines 131 and 172: a command is over and the tail of its logs is taken
ReadLogs ==
    /\ tail = None
    /\ tail' = Some(get_tail_log(stdout_log, stderr_log))
    /\ UNCHANGED <<stdout_log, stderr_log, toolVars, progVars, histVars, drvVars>>

\* the logs a command has left
TailInit ==
    /\ ModuleLoaded
    /\ ToolsLoaded
    /\ stdout_log \in LogFiles
    /\ stderr_log \in LogFiles
    /\ tail = None

TailNext == ReadLogs

TailSpec == TailInit /\ [][TailNext]_vars
---------------------------------------------------------------------------
(* Positions and loop state used by the properties *)

\* the counters and the loop test of the retry loop run() is in, at its top
AtLoopTop == pc \in {"repo_loop", "exploit_loop", "verify_loop"}

CurPhase ==
    CASE pc = "repo_loop" -> "project_build"
      [] pc = "exploit_loop" -> "exploit_build"
      [] pc = "verify_loop" -> "verifier_build"

CurTry ==
    CASE pc = "repo_loop" -> locals.repo_try
      [] pc = "exploit_loop" -> locals.exploit_try
      [] pc = "verify_loop" -> locals.try_itr

CurRound ==
    CASE pc = "repo_loop" -> locals.critic_try
      [] pc = "exploit_loop" -> locals.exploit_critic_try
      [] pc = "verify_loop" -> locals.sanity_itr

CurGuard ==
    CASE pc = "repo_loop" ->
            LoopGuard(locals.repo_done, locals.repo_try, max_repo_tries,
                      locals.critic_try, max_critic_tries)
      [] pc = "exploit_loop" ->
            LoopGuard(locals.exploit_done, locals.exploit_try, max_exploit_tries,
                      locals.exploit_critic_try, max_exploit_critic_tries)
      [] pc = "verify_loop" ->
            LoopGuard(locals.verifier_done, locals.try_itr, max_flag_tries,
                      locals.sanity_itr, max_sanity_tries)

\* an iteration of the current loop has been entered, and the loop is about to
\* enter the next one
NextIteration == AtLoopTop /\ top.phase = CurPhase /\ CurGuard

Ended == pc \in {"returned", "raised"}

---------------------------------------------------------------------------
(* C1: at the top of every iteration after the first, in each of the three   *)
(* loops, the attempt counter is one larger than at the top of the iteration *)
(* before, or it is 1; and it is 1 only if the iteration before ended with a *)
(* critic (sanity-critic) rejection that carried feedback.                   *)
C1_AttemptStep ==
    NextIteration =>
        /\ CurTry = top.try + 1 \/ CurTry = 1
        /\ CurTry = 1 => iterEnd = "critic_feedback"

\* the second attempt succeeded, the critic rejected it with feedback, and the
\* third iteration of the Repository-Build loop starts at attempt 1
C1_Witness ==
    /\ pc = "repo_loop" /\ NextIteration
    /\ top.try = 2 /\ locals.repo_try = 1
    /\ iterEnd = "critic_feedback"

(* C2: a charge made with exception = False that brings total_cost to        *)
(* MAX_COST or more aborts the run at that call: the run is in the           *)
(* cost-exceeded handler or has returned with success False and the cost     *)
(* reason, and no agent, critic or validator is invoked from then on.        *)
BudgetAbort == lastCharge.made /\ ~lastCharge.exception /\ total_cost >= MAX_COST

C2_AbortState ==
    BudgetAbort =>
        \/ pc = "except" /\ exc = Some([type |-> "ValueError", message |-> CostReason])
        \/ pc = "returned" /\ results = Result("False", CostReason)

C2_BudgetAbort == [] C2_AbortState /\ [][BudgetAbort => calls' = calls /\ Ended']_vars

\* the Repository-Build agent's charge crossed the ceiling and the run returned
C2_Witness ==
    /\ BudgetAbort /\ lastCharge.phase = "project_build"
    /\ pc = "returned" /\ results = Result("False", CostReason)

(* C3: total_cost never decreases: every step, the charges that raise the    *)
(* budget-exceeded error included, leaves it at least as large as before.    *)
C3_CostMonotone == [][total_cost' >= total_cost]_vars

\* a charge that raised the budget error has been added to the total
C3_Witness ==
    /\ pc = "except" /\ exc = Some([type |-> "ValueError", message |-> CostReason])
    /\ total_cost >= MAX_COST /\ lastCharge.made

(* C4: a charge is made with exception = True exactly when it accompanies a  *)
(* call whose outcome is terminal for the loop (the artifact was accepted,   *)
(* or the critic rejected it terminally), and with exception = False for     *)
(* every charge after which the loop goes on to another attempt.             *)
C4_OverrunIffTerminal ==
    /\ lastCharge.made => (lastCharge.exception <=> lastCharge.terminal)
    /\ NextIteration => ~lastCharge.exception

(* C5: when a loop concludes (accept, reject + infeasible, reject without    *)
(* feedback) and the charge made at that moment brings total_cost to         *)
(* MAX_COST or more, the charge does not raise the budget error and the      *)
(* result recorded for a terminal rejection is that rejection's.             *)
RejectReasons ==
    {"Not possible to build the repo!!!", "No feedback to correct the setup!!!",
     "Not possible to exploit the vulnerability!!!",
     "No feedback to correct the exploit!!!", "No feedback to correct the verifier!!!"}

C5_ConclusionKept ==
    /\ (lastCharge.made /\ lastCharge.terminal) =>
          ~(pc = "except" /\ exc[1].message = CostReason)
    /\ (Ended /\ iterEnd \in {"infeasible", "no_feedback"}) =>
          results.reason \in RejectReasons

(* C6: a phase among Knowledge, Prerequisites, Repository-Build and Exploit  *)
(* whose switch is off never has its agent or its critic invoked and is      *)
(* never charged for.                                                        *)
C6_LoadedPhaseSilent ==
    /\ ~flags["KB"] => calls["kb"] = 0 /\ lastCharge.phase # "knowledge"
    /\ ~flags["PRE_REQ"] => calls["prereq"] = 0 /\ lastCharge.phase # "prereq"
    /\ ~flags["REPO"] =>
          /\ calls["repo"] = 0 /\ calls["repo_sum"] = 0 /\ calls["repo_critic"] = 0
          /\ lastCharge.phase # "project_build"
    /\ ~flags["EXPLOIT"] =>
          /\ calls["exploit"] = 0 /\ calls["exploit_sum"] = 0
          /\ calls["exploit_critic"] = 0
          /\ lastCharge.phase # "exploit_build"

\* all four phases were loaded from storage and nothing has been charged
C6_Witness ==
    /\ pc = "verify" /\ ~flags["KB"] /\ ~flags["EXPLOIT"]
    /\ exploit.success = "yes" /\ total_cost = 0 /\ ~lastCharge.made

(* C7: a critic rejection that is infeasible or has blank feedback (Repository- *)
(* Build, Exploit), or a sanity rejection without fix steps (Verify), ends   *)
(* the loop in that iteration: from the decision on nothing more is invoked  *)
(* and the run only goes to its end, whatever the counters are.              *)
TerminalDecision ==
    \/ /\ pc \in {"repo_decision", "exploit_decision"}
       /\ locals.res.decision = "no"
       /\ locals.res.possible = "no" \/ locals.res.feedback \in {"", " "}
    \/ /\ pc = "verify_decision"
       /\ locals.res.decision = "no"
       /\ locals.res.steps_to_fix = ""

C7_TerminalRejectEnds ==
    /\ [](iterEnd \in {"infeasible", "no_feedback"} => pc \in {"returned", "except"})
    /\ [][(TerminalDecision \/ iterEnd \in {"infeasible", "no_feedback"}) =>
             (calls' = calls /\ pc' \in {"returned", "except"})]_vars

\* the Exploit critic, in its second round, returned a blank feedback and the
\* run has returned
C7_Witness ==
    /\ pc = "returned" /\ iterEnd = "no_feedback"
    /\ top.phase = "exploit_build" /\ top.round = 2
    /\ locals.res.feedback = " "

(* C8: with the critic disabled, a Repository-Build or Exploit loop ends     *)
(* successful exactly when the last of at most three agent attempts returned *)
(* explicit success; attempt k starts after exactly k-1 summarize calls with *)
(* the output of the latest one as its builder feedback; a loop that fails   *)
(* made three attempts and two summarize calls; and on success time_left is  *)
(* TIMEOUT minus the elapsed time.                                           *)
C8_Loop(done, try, feedback, attempts, summaries, value, artifact) ==
    /\ pc \in {"repo_invoke", "exploit_invoke"} =>
          /\ try <= 3
          /\ attempts = try - 1 /\ summaries = try - 1
          /\ feedback = IF try = 1 THEN None ELSE Some(SummaryText(try - 1))
    /\ pc \in {"repo_loop", "exploit_loop"} /\ ~CurGuard =>
          /\ done <=> value = "yes"
          /\ attempts <= 3 /\ summaries = attempts - 1
          /\ ~done => attempts = 3
    /\ pc \in {"repo_charge", "exploit_charge"} /\ done =>
          artifact.time_left = Some(TIMEOUT - (now - start_time[1]))

C8_NoCriticLoop ==
    /\ (pc \in {"repo_invoke", "repo_loop", "repo_charge"} /\ ~flags["REPO_CRITIC"]
          /\ (pc = "repo_loop" => top.phase = "project_build")) =>
          C8_Loop(locals.repo_done, locals.repo_try, locals.repo_feedback,
                  calls["repo"], calls["repo_sum"], locals.res.value, repo_build)
    /\ (pc \in {"exploit_invoke", "exploit_loop", "exploit_charge"}
          /\ ~flags["EXPLOIT_CRITIC"]
          /\ (pc = "exploit_loop" => top.phase = "exploit_build")) =>
          C8_Loop(locals.exploit_done, locals.exploit_try, locals.exploit_feedback,
                  calls["exploit"], calls["exploit_sum"], locals.res.value, exploit)

\* scenario A: two attempts were summarized, the third succeeded after some time
C8_Witness ==
    /\ pc = "repo_charge" /\ ~flags["REPO_CRITIC"] /\ locals.repo_done
    /\ calls["repo"] = 3 /\ calls["repo_sum"] = 2
    /\ locals.repo_feedback = Some("summary 2")
    /\ repo_build.time_left = Some(TIMEOUT - LongCall)

(* C9: after a critic rejection that is feasible and has feedback, the next  *)
(* iteration starts with attempt_count 1, the critic round one larger than   *)
(* at the top of the iteration before, no builder feedback and the critic's  *)
(* text as critic feedback; and when the critic accepts, the loop ends done  *)
(* with a successful artifact.                                               *)
C9_Loop(done, try, round, feedback, critic_feedback, artifact) ==
    /\ (iterEnd = "critic_feedback" /\ CurGuard) =>
          /\ try = 1
          /\ round = top.round + 1
          /\ feedback = None
          /\ critic_feedback = Some(locals.res.feedback)
          /\ locals.res.feedback \notin {"", " "}
    /\ iterEnd = "accepted" =>
          /\ done /\ ~CurGuard
          /\ artifact.success = "yes"

C9_CriticRetry ==
    /\ (pc = "repo_loop" /\ flags["REPO_CRITIC"]) =>
          C9_Loop(locals.repo_done, locals.repo_try, locals.critic_try,
                  locals.repo_feedback, locals.critic_feedback, repo_build)
    /\ (pc = "exploit_loop" /\ flags["EXPLOIT_CRITIC"]) =>
          C9_Loop(locals.exploit_done, locals.exploit_try, locals.exploit_critic_try,
                  locals.exploit_feedback, locals.exploit_critic_feedback, exploit)

\* scenario B: rejected with feedback in round 1, accepted in round 2
C9_Witness ==
    /\ pc = "repo_loop" /\ iterEnd = "accepted" /\ locals.repo_done
    /\ calls["repo_critic"] = 2 /\ calls["repo"] = 2
    /\ top.try = 1 /\ top.round = 2

(* C10: the critic of a Repository-Build or Exploit loop is invoked at most  *)
(* max_critic_rounds (2) times; after its second rejection with feedback the *)
(* loop is left as failed, with attempt_count at 1, and no agent attempt     *)
(* follows.                                                                  *)
SecondRejection(loop, critic) ==
    pc = loop /\ iterEnd = "critic_feedback" /\ calls[critic] = 2

C10_State ==
    /\ calls["repo_critic"] <= max_critic_tries
    /\ calls["exploit_critic"] <= max_exploit_critic_tries
    /\ SecondRejection("repo_loop", "repo_critic") =>
          locals.repo_try = 1 /\ ~locals.repo_done /\ ~CurGuard
    /\ SecondRejection("exploit_loop", "exploit_critic") =>
          locals.exploit_try = 1 /\ ~locals.exploit_done /\ ~CurGuard

C10_CriticRounds ==
    /\ [] C10_State
    /\ [][SecondRejection("repo_loop", "repo_critic") =>
             /\ calls' = calls
             /\ pc' = "returned"
             /\ results' = Result("False", "Repo could not be built")]_vars
    /\ [][SecondRejection("exploit_loop", "exploit_critic") =>
             /\ calls' = calls
             /\ pc' = "returned"
             /\ results' = Result("False", "Exploiter failed")]_vars

\* the second rejection with feedback has just been charged
C10_Witness ==
    /\ pc = "exploit_loop" /\ iterEnd = "critic_feedback"
    /\ calls["exploit_critic"] = 2 /\ locals.exploit_try = 1

---------------------------------------------------------------------------
(* The order of the phases *)

\* the phase a position of run() belongs to: 1 Knowledge .. 5 Verify, 6 after
\* run() has left its phases
PhaseRank ==
    CASE pc = "knowledge" -> 1
      [] pc = "prereq" -> 2
      [] pc \in {"repo", "repo_loop", "repo_invoke", "repo_result", "repo_decision",
                 "repo_charge", "repo_check"} -> 3
      [] pc \in {"exploit", "exploit_loop", "exploit_invoke", "exploit_result",
                 "exploit_decision", "exploit_charge", "exploit_check"} -> 4
      [] pc \in {"verify", "verify_loop", "verify_invoke", "verify_validate",
                 "verify_result", "verify_decision", "verify_charge"} -> 5
      [] OTHER -> 6

\* the phase whose agent, critic or validator an invocation kind is
KindPhase(k) ==
    CASE k = "kb" -> 1
      [] k = "prereq" -> 2
      [] k \in {"repo", "repo_sum", "repo_critic"} -> 3
      [] k \in {"exploit", "exploit_sum", "exploit_critic"} -> 4
      [] OTHER -> 5

NotFoundReason ==
    <<"Knowledge Builder response not found",
      "Pre-Requsites Builder response not found",
      "Repo Builder response not found",
      "Exploiter response not found">>

HasReason(r) == "reason" \in DOMAIN results /\ results.reason = r

\* run() has ended because phase p was neither executed nor found
Missing(p) == HasReason(NotFoundReason[p])

(* C11: the phases run in the order Knowledge, Prerequisites, Repository-    *)
(* Build, Exploit, Verify, each invocation being made in its own phase; and  *)
(* when a phase is neither executed nor found in storage run() returns       *)
(* without raising, with success False and that phase's 'response not found' *)
(* reason, nothing of that phase or a later one having been invoked.         *)
C11_MissingState ==
    \A p \in 1..4 :
        Missing(p) =>
            /\ pc = "returned" /\ exc = None
            /\ results.success = "False"
            /\ \A k \in Kinds : KindPhase(k) >= p => calls[k] = 0

C11_PhaseOrder ==
    /\ [] C11_MissingState
    /\ [][/\ PhaseRank' \in {PhaseRank, PhaseRank + 1, 6}
          /\ \A k \in Kinds : calls'[k] > calls[k] => KindPhase(k) = PhaseRank
          /\ (\E p \in 1..4 : Missing(p)) => calls' = calls]_vars

\* a build run: the repository was built, the exploit was neither selected nor
\* found in storage
C11_Witness ==
    /\ Missing(4) /\ pc = "returned"
    /\ calls["repo"] > 0 /\ repo_build.success = "yes"

(* C12: the Exploit and Verify phases run only after a Repository-Build      *)
(* artifact that reports success, and the Verify phase only after an Exploit *)
(* artifact that reports success; when the Repository-Build or the Exploit   *)
(* phase ends (executed or loaded) with an artifact that does not, run()     *)
(* returns without raising, with success False.                              *)
C12_Gate ==
    /\ PhaseRank \in {4, 5} => repo_build.success = "yes"
    /\ PhaseRank = 5 => exploit.success = "yes"
    /\ \A k \in Kinds : calls[k] > 0 /\ KindPhase(k) = 5 => exploit.success = "yes"

\* run() leaves phase p otherwise than by an exception
PhaseEnds(p) == PhaseRank = p /\ PhaseRank' # p /\ pc' # "except"

C12_ShortCircuit ==
    /\ [] C12_Gate
    /\ [][/\ PhaseEnds(3) /\ repo_build'.success # "yes" =>
                pc' = "returned" /\ exc' = None /\ results'.success = "False"
          /\ PhaseEnds(4) /\ exploit'.success # "yes" =>
                pc' = "returned" /\ exc' = None /\ results'.success = "False"]_vars

\* the repository was built in this run, the stored exploit artifact reports a
\* failure, and run() has returned without entering the Verify phase
C12_Witness ==
    /\ HasReason("Exploit was not generated!!!") /\ pc = "returned"
    /\ exploit.success = "no" /\ flags["REPO"] /\ flags["CTF_VERIFIER"]
    /\ calls["verifier"] = 0

(* C13: once run() is past the Knowledge phase, executed or loaded, the      *)
(* timer has been started: start_time is set at every position of the three *)
(* retry loops, and no check_time call fails with anything but the timeout.  *)
InRetryLoop ==
    pc \in {"repo_loop", "repo_invoke", "repo_result", "repo_decision", "repo_charge",
            "exploit_loop", "exploit_invoke", "exploit_result", "exploit_decision",
            "exploit_charge",
            "verify_loop", "verify_invoke", "verify_validate", "verify_result",
            "verify_decision", "verify_charge"}

C13_TimerStarted ==
    /\ InRetryLoop => start_time # None
    /\ exc # None => exc[1].type # "TypeError"

(* C14: in every iteration of the three retry loops the elapsed time is      *)
(* checked before the agent is invoked; when more than TIMEOUT has elapsed   *)
(* at that check nothing is invoked in that iteration or afterwards, and the *)
(* run ends with success False and the timeout reason that names the phase.  *)
PhaseTimeouts ==
    {"Timeout expired during phase: project_build",
     "Timeout expired during phase: exploit_build",
     "Timeout expired during phase: verifier_build"}

\* the iteration about to be entered finds the deadline passed
LateAtTop ==
    /\ AtLoopTop /\ CurGuard
    /\ start_time # None /\ now - start_time[1] > TIMEOUT

TimedOut == exc # None /\ exc[1].type = "TimeoutExpired"

C14_State ==
    /\ pc \in {"repo_invoke", "exploit_invoke", "verify_invoke"} =>
          start_time # None /\ now - start_time[1] <= TIMEOUT
    /\ TimedOut => pc \in {"except", "raised"} /\ exc[1].message \in PhaseTimeouts
    /\ pc = "raised" => TimedOut /\ results = Result("False", exc[1].message)

C14_TimeCheck ==
    /\ [] C14_State
    /\ [][/\ calls'["repo"] > calls["repo"] => pc = "repo_invoke"
          /\ calls'["exploit"] > calls["exploit"] => pc = "exploit_invoke"
          /\ calls'["verifier"] > calls["verifier"] => pc = "verify_invoke"
          /\ pc' \in {"repo_invoke", "exploit_invoke", "verify_invoke"} => AtLoopTop
          /\ LateAtTop =>
                /\ pc' = "except" /\ calls' = calls
                /\ exc' = Some([type |-> "TimeoutExpired",
                                message |-> "Timeout expired during phase: " \o CurPhase])
          /\ TimedOut => calls' = calls /\ pc' = "raised"]_vars

\* the Verify loop found the deadline passed at the top of a later iteration
C14_Witness ==
    /\ pc = "raised" /\ calls["verifier"] > 0
    /\ results = Result("False", "Timeout expired during phase: verifier_build")
---------------------------------------------------------------------------
(* The driver's record *)

(* C15: on every exit path of the run, and wherever the alarm fires while it *)
(* is armed, the driver does not end abnormally, disarms the alarm and saves *)
(* a record with cost, time and model; the alarm is never pending once the   *)
(* record has been saved.                                                    *)
C15_DriverFinalizes ==
    AsDriverSets =>
        /\ pc # "crashed"
        /\ record # None =>
              /\ alarm \in {"off", "fired"}
              /\ {"cost", "time", "model"} \subseteq DOMAIN record[1]

(* C16: every record the driver saves has a success field and a reason       *)
(* field, whatever the run type and the stored artifacts are; stated here    *)
(* for the runs the alarm does not fire in.                                  *)
C16_RecordShape ==
    (AsDriverSets /\ record # None /\ alarm # "fired") =>
        {"success", "reason"} \subseteq DOMAIN record[1]
---------------------------------------------------------------------------
(* Charges *)

\* run() was ended by its except Exception handler
EndedByException ==
    \E r \in {CostReason, AgentErrorReason, TypeErrorReason} : HasReason(r)

(* C17: every agent, summarize and critic invocation of a run is charged:    *)
(* when run() returns, otherwise than through an exception, total_cost is    *)
(* the sum of the costs of the invocations made, those of an iteration that  *)
(* ended in a terminal rejection included.                                   *)
C17_AllCharged ==
    (pc = "returned" /\ ~EndedByException) => total_cost = incurred

---------------------------------------------------------------------------
(* The Verify loop *)

(* C18: when the validator reports that the flag was not found, the sanity   *)
(* critic is not consulted in that iteration, the sanity counter keeps its   *)
(* value, the attempt counter goes up by exactly 1, and the next attempt, if *)
(* one remains, is given the feedback made of the artifact just tried and    *)
(* the validator's log of it.                                                *)
FlagMissed == pc = "verify_result" /\ ~locals.check

C18_NotFound ==
    /\ [][FlagMissed =>
             /\ calls' = calls
             /\ pc' = "verify_loop"
             /\ locals'.sanity_itr = locals.sanity_itr
             /\ locals'.try_itr = locals.try_itr + 1
             /\ locals'.ctf_feedback =
                   Some([previous_code |-> locals.ctf_verifier,
                         output_logs |-> locals.val_log])
             /\ locals.val_log = locals.ctf_verifier]_vars
    /\ [][(/\ pc = "verify_invoke" /\ iterEnd = "not_found"
            /\ calls'["verifier"] > calls["verifier"]) =>
             locals.ctf_feedback =
                Some([previous_code |-> calls["verifier"], output_logs |-> calls["verifier"]])]_vars

\* the second attempt of a Verify loop with the sanity critic enabled is about
\* to be made, after the first one's flag was not found
C18_Witness ==
    /\ pc = "verify_invoke" /\ iterEnd = "not_found" /\ UseSanityCheck
    /\ locals.try_itr = 2 /\ locals.sanity_itr = 1 /\ calls["sanity"] = 0
    /\ locals.ctf_feedback = Some([previous_code |-> 1, output_logs |-> 1])

(* C19: with the sanity critic enabled, after a found flag and a sanity      *)
(* rejection with fix steps the next attempt starts with the attempt counter *)
(* at 1, the sanity counter one larger and the fix steps in its feedback;    *)
(* the loop fails as soon as a counter is above its cap of 5, and the sanity *)
(* critic is consulted at most 5 times in a Verify phase.                    *)
AfterSanityReject == pc = "verify_loop" /\ iterEnd = "critic_feedback"

C19_State ==
    /\ AfterSanityReject =>
          /\ locals.try_itr = 1
          /\ locals.sanity_itr = top.round + 1
          /\ locals.res.steps_to_fix # ""
          /\ locals.ctf_feedback =
                Some([previous_code |-> locals.ctf_verifier,
                      proposed_fixes |-> locals.res.steps_to_fix])
    /\ calls["sanity"] <= 5

C19_SanityRetry ==
    /\ [] C19_State
    /\ [][(/\ pc = "verify_loop" /\ ~locals.verifier_done
           /\ locals.try_itr > 5 \/ locals.sanity_itr > 5) =>
             /\ pc' = "returned" /\ calls' = calls
             /\ results' = Result("False", "CTF Verifier failed")]_vars

\* the sanity critic has rejected five artifacts with fix steps, and the loop
\* has failed with the attempt counter at 1
C19_Witness ==
    /\ pc = "returned" /\ HasReason("CTF Verifier failed")
    /\ calls["sanity"] = 5 /\ locals.try_itr = 1 /\ locals.sanity_itr = 6

(* C20: a run whose Verify phase is executed ends with success True only if  *)
(* the validator found the flag with the last verifier artifact and the      *)
(* sanity critic was disabled or accepted that artifact: no timeout, budget  *)
(* abort, error or failed Verify loop leaves the success True that the       *)
(* Exploit phase wrote.  Stated for the switch settings of the driver.       *)
RunOver == pc \in {"returned", "raised", "finalize", "saved", "crashed"}

VerifyEntered == "verifier_done" \in DOMAIN locals

Verified ==
    /\ locals.verifier_done /\ locals.check
    /\ locals.val_log = locals.ctf_verifier
    /\ locals.ctf_verifier = calls["verifier"]
    /\ UseSanityCheck => locals.res.decision = "yes"

C20_VerifiedSuccess ==
    (/\ AsDriverSets /\ RunOver /\ VerifyEntered
     /\ "success" \in DOMAIN results /\ results.success = "True") =>
        /\ Verified
        /\ results.reason = "CTF Verifier done! CVE reproduced!"
---------------------------------------------------------------------------
(* The commands of the sandbox *)

\* the call of command_ops made last
LastOp == ops[Len(ops)]

\* a call of command_ops is made in this step
Called(name) == Len(ops') = Len(ops) + 1 /\ ops'[Len(ops')].name = name

\* C21: a foreground command that runs for longer than the 300 second timeout
\* makes execute_command_foreground return the fixed text advising background
\* execution; nothing is raised, and the environment overlay and the
\* registry of background processes are left as they were.
C21_ForegroundTimeout ==
    [][(Called("execute_command_foreground")
            /\ ops'[Len(ops')].duration > FOREGROUND_TIMEOUT)
        => /\ ops'[Len(ops')].outcome = "returned"
           /\ ops'[Len(ops')].ret = TimedOutText
           /\ env' = env
           /\ background_process_list' = background_process_list]_vars

\* a foreground command has timed out with a variable set and a process registered
C21_Witness ==
    /\ ops # << >>
    /\ LastOp.name = "execute_command_foreground"
    /\ LastOp.duration > FOREGROUND_TIMEOUT
    /\ LastOp.ret = TimedOutText
    /\ env # EmptyEnv
    /\ background_process_list # {}

\* the lines of a stream the tail shows are its last min(100, n), in their order
LastLinesOf(shown, file) ==
    LET n == Len(file.lines)
        k == IF n < 100 THEN n ELSE 100
    IN  /\ Len(shown) = k
        /\ \A i \in 1..k : shown[i] = file.lines[n - k + i]

Ran == Called("execute_command_foreground") \/ Called("execute_command_background")

\* e is the base environment with every variable of the overlay put over it
Overridden(e, base, overlay) ==
    /\ DOMAIN e = DOMAIN base \cup DOMAIN overlay
    /\ \A k \in DOMAIN overlay : e[k] = overlay[k]
    /\ \A k \in DOMAIN base \ DOMAIN overlay : e[k] = base[k]

\* C24: set_environment_variable(key, value, clear) leaves the overlay equal to
\* the previous one (the empty one when clear is true) with key set to value,
\* and returns that overlay; the overlay changes only by a set or a cleanup,
\* however many commands are run, and every command runs with the base
\* environment overridden by the overlay. Setting FOO to 1 with clear and then
\* BAR to 2 without gives the overlay FOO = 1, BAR = 2.
C24_Overlay ==
    /\ [][/\ Called("set_environment_variable")
              => /\ DOMAIN env' = (IF ops'[Len(ops')].clear THEN {} ELSE DOMAIN env)
                                     \cup {ops'[Len(ops')].key}
                 /\ env'[ops'[Len(ops')].key] = ops'[Len(ops')].value
                 /\ \A k \in DOMAIN env' \ {ops'[Len(ops')].key} : env'[k] = env[k]
                 /\ ops'[Len(ops')].shown = env'
          /\ Ran => /\ env' = env
                    /\ Overridden(ops'[Len(ops')].ran_with, OsEnviron, env)
          /\ env' # env => \/ Called("set_environment_variable")
                           \/ Called("cleanup_background_processes")]_vars
    /\ [](\A i \in 1..(Len(ops) - 1) :
            (/\ ops[i].name = "set_environment_variable"
             /\ ops[i].key = "FOO" /\ ops[i].value = "1" /\ ops[i].clear
             /\ ops[i + 1].name = "set_environment_variable"
             /\ ops[i + 1].key = "BAR" /\ ops[i + 1].value = "2" /\ ~ops[i + 1].clear)
            => /\ DOMAIN ops[i + 1].shown = {"FOO", "BAR"}
               /\ ops[i + 1].shown["FOO"] = "1"
               /\ ops[i + 1].shown["BAR"] = "2")

\* FOO is set to 1 with clear, BAR to 2 without, and a command runs with both,
\* FOO of the base environment being overridden
C24_Witness ==
    /\ Len(ops) = 3
    /\ ops[1].name = "set_environment_variable"
    /\ ops[1].key = "FOO" /\ ops[1].value = "1" /\ ops[1].clear
    /\ ops[2].name = "set_environment_variable"
    /\ ops[2].key = "BAR" /\ ops[2].value = "2" /\ ~ops[2].clear
    /\ ops[3].name = "execute_command_foreground"
    /\ ops[3].ran_with["FOO"] = "1"
    /\ ops[3].ran_with["BAR"] = "2"
    /\ OsEnviron["FOO"] = "0"
    /\ DOMAIN env = {"FOO", "BAR"}

\* C25: when cleanup_background_processes has returned, the registry is empty
\* and the overlay is empty, whatever calls came before and also when sending
\* the signal to a registered process fails.
C25_CleanupEmpties ==
    (ops # << >> /\ LastOp.name = "cleanup_background_processes")
        => /\ LastOp.outcome = "returned"
           /\ background_process_list = {}
           /\ env = EmptyEnv

\* a cleanup with a variable set and a registered process the signal failed for
C25_Witness ==
    /\ Len(ops) = 3
    /\ ops[1].name = "set_environment_variable"
    /\ LastOp.name = "cleanup_background_processes"
    /\ LastOp.registered # {}
    /\ LastOp.failed = LastOp.registered
    /\ background_process_list = {}
    /\ env = EmptyEnv

\* C26: when cleanup_background_processes has returned, no process that was in
\* the registry is still running, whatever the process does when the
\* termination signal reaches it.
C26_NoneSignalable ==
    (ops # << >> /\ LastOp.name = "cleanup_background_processes")
        => LastOp.registered \cap Running = {}

\* the calls that run a command
Commands ==
    {i \in DOMAIN ops : ops[i].name \in {"execute_command_foreground",
                                          "execute_command_background"}}

\* the paths of the two logs of a command
LogsOf(i) == {ops[i].stdout_log, ops[i].stderr_log}

\* C27: every command writes its stdout and stderr to log files whose paths
\* differ from those of every other command of the same process, and no later
\* command opens the log of a background process that is still running.
C27_UniqueLogs ==
    \A i \in Commands : \A j \in Commands :
        i < j => /\ LogsOf(i) \cap LogsOf(j) = {}
                 /\ (ops[i].name = "execute_command_background"
                        /\ ops[i].pid \in ops[j].alive)
                      => LogsOf(i) \cap LogsOf(j) = {}

\* C28: a background process is in the registry from its launch and leaves it
\* at a cleanup or, without one, once it has come to its end: when a registered
\* process has exited and another call of the sandbox has been made since, the
\* process is no longer in the registry.
C28_ExitedLeaves ==
    \A p \in DOMAIN os_procs :
        (os_procs[p].state = "exited" /\ Len(ops) > os_procs[p].exited_at)
            => p \notin background_process_list

---------------------------------------------------------------------------
(* The feedback passed to the agents, and the ends of the loops *)

\* what an agent attempt about to be made is given
C29_Passed(feedback, critic_feedback) ==
    /\ feedback = None \/ critic_feedback = None
    /\ critic_feedback # None
          => /\ iterEnd = "critic_feedback"
             /\ critic_feedback = Some(locals.res.feedback)
             /\ top.try = 1
    /\ iterEnd = "critic_feedback" => critic_feedback # None

\* C29: at every agent attempt of the Repository-Build and Exploit loops at
\* most one kind of pending feedback is passed, the builder's summary or the
\* critic's text and never both; and a critic's text is passed to exactly one
\* attempt, the first one after the rejection that gave it.
C29_OneFeedback ==
    /\ pc = "repo_invoke"
          => C29_Passed(locals.repo_feedback, locals.critic_feedback)
    /\ pc = "exploit_invoke"
          => C29_Passed(locals.exploit_feedback, locals.exploit_critic_feedback)

\* an exploiter attempt is given the critic's text after an earlier attempt of
\* the loop was given a summary
C29_Witness ==
    /\ pc = "exploit_invoke"
    /\ locals.exploit_critic_feedback # None
    /\ locals.exploit_feedback = None
    /\ calls["exploit_sum"] > 0
    /\ calls["exploit_critic"] = 1

\* run() is in the loop of Repository-Build, of Exploit or of Verify
InRepoLoop ==
    pc \in {"repo_loop", "repo_invoke", "repo_result", "repo_decision", "repo_charge",
            "repo_check"}
InExploitLoop ==
    pc \in {"exploit_loop", "exploit_invoke", "exploit_result", "exploit_decision",
            "exploit_charge", "exploit_check"}
InVerifyLoop ==
    pc \in {"verify_loop", "verify_invoke", "verify_validate", "verify_result",
            "verify_decision"}

\* the attempts and critic calls a loop has made are within the bounds
C30_Bounds ==
    /\ calls["repo"] <= 6 /\ calls["repo_critic"] <= 2
    /\ calls["exploit"] <= 6 /\ calls["exploit_critic"] <= 2
    /\ calls["verifier"] <= 25 /\ calls["sanity"] <= 5

\* C30: every retry loop comes to an end, given that each invocation returns:
\* a Repository-Build or Exploit loop after at most 6 agent attempts and 2
\* critic calls, the Verify loop after at most 25 verifier attempts and 5
\* sanity calls.
C30_LoopsEnd ==
    /\ []C30_Bounds
    /\ <>[](~InRepoLoop /\ ~InExploitLoop /\ ~InVerifyLoop)

\* the Verify loop is over after 25 verifier attempts and 5 sanity calls
C30_Witness ==
    /\ pc = "returned"
    /\ iterEnd = "critic_feedback"
    /\ calls["verifier"] = 25 /\ calls["sanity"] = 5

---------------------------------------------------------------------------
(* The ceiling of the cost and the invocations *)

\* an agent, a critic or the validator is invoked in this step
InvocationBegins == \E k \in Kinds : calls'[k] = calls[k] + 1

\* C31: no invocation of an agent or a critic begins while total_cost is
\* already MAX_COST or more: once the ceiling is reached, also by a charge
\* that is allowed to overrun, no later phase or attempt invokes an agent.
C31_NoInvocationOverCeiling ==
    [][InvocationBegins => total_cost < MAX_COST]_vars

=============================================================================
